---- MODULE Spec2Model ----
(***************************************************************************)
(* Operation lifecycle of ng2-rike targets (RikeTargetImpl and             *)
(* RikeOperationImpl of ng2-rike/rike).                                    *)
(*                                                                         *)
(* A target keeps four private fields: _operation (the started event of    *)
(* the current operation), _response (the transport observable of the      *)
(* last verb call), _observer (the subscriber of the observable returned   *)
(* to the caller) and _subscr (the transport subscription).  Its event     *)
(* stream _rikeEvents is an EventEmitter, i.e. an Rx Subject: emit()       *)
(* delivers on the subscribers' next channel, error() delivers on their    *)
(* error channel and stops the subject, and a stopped subject delivers     *)
(* nothing any more.                                                       *)
(*                                                                         *)
(* Every handler runs to completion (single-threaded), so each handler is  *)
(* one action.  What a handler does is recorded, in order, in the history  *)
(* variable out; events and got keep, per operation and per subscription,  *)
(* what was emitted on the stream and what the caller's observer received. *)
(***************************************************************************)
EXTENDS Integers, Sequences, FiniteSets, TLC

\* Bounds of the model.
MaxOps == 2        \* verb calls (each on a freshly created operation)
MaxSubs == 2       \* subscriptions of the returned observables
MaxThrowSubs == 1  \* ... in the runs with subscribers that throw
MaxUrlLen == 4     \* characters of the URLs given to relativeUrl
MaxFieldSubs == 3  \* subscriptions made on the fields of the error collector

\* The targets of the service, by uniqueId.
Targets == {1, 2}
Ops == 1 .. MaxOps
SubIds == 1 .. MaxSubs

NoOp == 0                \* undefined operation / started event
NoSub == 0               \* undefined observer / subscription
NoVal == "-"             \* undefined result / error

\* The verb methods of RikeOperationImpl and the ones that carry a body.
Verbs == {"load", "send", "get", "post", "put", "delete", "patch", "head"}
HasBody(v) == v \in {"send", "post", "put", "patch"}

\* Transport payloads: a response the protocol decodes, one it cannot decode.
Responses == {"r1", "bad"}
TransportErrors == {"error1"}

\* protocol.readResponse: decodes the transport response or throws.
Decodable(r) == r # "bad"
readResponse(r) == IF r = "r1" THEN "out1" ELSE NoVal
DecodeError(r) == "decode-error"

VARIABLES
    nextOp,      \* id of the next operation to be created
    opTarget,    \* operation -> its target (0 before the verb call)
    wrapped,     \* operation -> the verb call returned an observable
    nextSub,     \* id of the next subscription to be made
    subOp,       \* subscription -> the operation whose observable it is of
    tr,          \* subscription -> "none" | "dead" | "open" | "closed"
    nexted,      \* subscription -> the transport has delivered its response
    ostop,       \* subscription -> the caller's subscriber is stopped
    _operation,  \* target -> operation of the current started event
    _response,   \* target -> operation whose transport observable is current
    _observer,   \* target -> subscription whose subscriber is held
    _subscr,     \* target -> subscription whose transport subscription is held
    stopped,     \* target -> the event stream (Subject) is stopped
    serviceStopped,  \* the event stream of the Rike service is stopped
    superseded,  \* history: operation -> the operation whose verb call replaced
                 \* it as the current one before any response to it arrived
    out,         \* history: what the last handler did, in order
    events,      \* history: operation -> the emit()/error() calls for it
    got,         \* history: subscription -> what its observer was notified of
    last,        \* history: the last handler that ran, and its outcome
    rikeStatus,  \* the RikeStatus subscribed on the targets' event streams
    errorCollector  \* the ErrorCollector

vars == <<nextOp, opTarget, wrapped, nextSub, subOp, tr, nexted, ostop,
          _operation, _response, _observer, _subscr, stopped,
          serviceStopped, superseded, out, events, got, last, rikeStatus, errorCollector>>

----------------------------------------------------------------------------
\* Events (ng2-rike/event).  An event is identified by its kind, its
\* operation, its result or error, and (for a cancel event) the operation
\* whose started event cancelled it.

RikeOperationEvent(o) == [kind |-> "started", op |-> o, val |-> NoVal, by |-> NoOp]
RikeSuccessEvent(o, v) == [kind |-> "succeeded", op |-> o, val |-> v, by |-> NoOp]
RikeErrorEvent(o, e) == [kind |-> "failed", op |-> o, val |-> e, by |-> NoOp]
RikeCancelEvent(o, cause) == [kind |-> "cancelled", op |-> o, val |-> NoVal, by |-> cause]

\* RikeEvent.complete
complete(ev) == ev.kind # "started"

\* Entries of out.
\* A call of emit() (ch = "next") or error() (ch = "error") on the stream of
\* target t; dlv tells whether the subject delivered it to its subscribers.
StreamE(t, ch, ev, dlv) ==
    [k |-> "stream", t |-> t, ch |-> ch, ev |-> ev, dlv |-> dlv]
\* A notification delivered to the caller's observer of subscription s;
\* cur is target.currentOperation as the observer sees it.
CallerE(s, sig, val, by, cur) ==
    [k |-> "caller", s |-> s, sig |-> sig, val |-> val, by |-> by, cur |-> cur]
\* What the Rike service's stream did with an event of target t forwarded
\* to it: a call of emit() or error() on it, delivered or not.
ServiceE(t, ch, ev, dlv) ==
    [k |-> "service", t |-> t, ch |-> ch, ev |-> ev, dlv |-> dlv]
\* A step of the request pipeline of operation o.
StepE(name, o) == [k |-> "step", name |-> name, o |-> o]

----------------------------------------------------------------------------
\* Operation statuses (ng2-rike/status).
\*
\* A RikeStatus keeps a start/end pair of events per target (keyed by the
\* target's uniqueId), the registered label maps per operation name, and the
\* cached combined status.  Its labels are looked up by the operation's
\* name; the default labels are the ones of the options of the target's
\* service.

\* uniqueIds of the targets a RikeStatus may hear of, and their operations'
\* names.
StatusTargets == {1, 2}
NameOf(t) == IF t = 1 THEN "load" ELSE "custom"
LabelIds == {"load", "custom", "*"}

\* An event as the RikeStatus reads it: event.target.uniqueId,
\* event.operation.name, event.complete and event.cancel (by its kind), and
\* event.error (NoVal: undefined).
StatusEvent(kind, t, name, error) ==
    [kind |-> kind, target |-> t, name |-> name, error |-> error]
NoEvent == StatusEvent("none", 0, "-", NoVal)
\* No pair / a pair without end.
NoStatus == [start |-> NoEvent, end |-> NoEvent]

\* Labels are strings; a label given as a function is one of LabelFns.
NoLabel == NoVal
LabelFns == {"fn:target", "fn:none"}
\* labelFn(target)
callLabel(labelFn, t) ==
    IF labelFn = "fn:target" THEN (IF t = 1 THEN "target1" ELSE "target2")
    ELSE NoLabel
\* A StatusLabels object.
StatusLabels(processing, failed, cancelled, succeed) ==
    [processing |-> processing, failed |-> failed, cancelled |-> cancelled,
     succeed |-> succeed]
\* No labels registered (an object without labels reads the same).
NoLabels == StatusLabels(NoLabel, NoLabel, NoLabel, NoLabel)
\* A map of label maps by operation name.
LabelMap(load, custom, star) == [load |-> load, custom |-> custom, star |-> star]
labelsAt(m, id) ==
    CASE id = "load" -> m.load
      [] id = "custom" -> m.custom
      [] id = "*" -> m.star
      [] OTHER -> NoLabels

\* DEFAULT_STATUS_LABELS, for the operation names in use.
DEFAULT_STATUS_LABELS ==
    LabelMap(StatusLabels("Loading", NoLabel, NoLabel, NoLabel),
             NoLabels,
             StatusLabels("Processing", "Error", "Cancelled", NoLabel))

\* A label with its status flag; NoStatusLabel is undefined.
StatusLabel(label, flag) ==
    [label |-> label, processing |-> flag = "processing",
     failed |-> flag = "failed", cancelled |-> flag = "cancelled",
     succeed |-> flag = "succeed"]
NoStatusLabel == StatusLabel(NoLabel, "none")

\* evalLabel(status, label)
evalLabel(status, label) ==
    IF label \in {NoLabel, ""} THEN NoLabel
    ELSE IF label \notin LabelFns THEN label
    ELSE callLabel(label, status.start.target)

\* labelOf(status, labels)
labelOf(status, labels) ==
    LET end == status.end
        flag == IF end = NoEvent THEN "processing"
                ELSE IF end.kind = "cancelled" THEN "cancelled"
                ELSE IF end.error # NoVal THEN "failed"
                ELSE "succeed"
        label == evalLabel(status,
                     CASE flag = "processing" -> labels.processing
                       [] flag = "cancelled" -> labels.cancelled
                       [] flag = "failed" -> labels.failed
                       [] flag = "succeed" -> labels.succeed)
    IN IF label \in {NoLabel, ""} THEN NoStatusLabel
       ELSE StatusLabel(label, flag)

\* a || b on labels
orLabel(a, b) == IF a # NoStatusLabel THEN a ELSE b

\* RikeStatus.labelFor looking into the default labels first.
labelFor_defaultsFirst(rs, status) ==
    LET operationName == status.start.name
        label == orLabel(labelOf(status, labelsAt(rs.defaultStatusLabels, operationName)),
                         labelOf(status, labelsAt(rs.defaultStatusLabels, "*")))
    IN IF label # NoStatusLabel THEN label
       ELSE orLabel(labelOf(status, labelsAt(rs._labels, operationName)),
                    labelOf(status, labelsAt(rs._labels, "*")))

\* RikeStatus.labelFor(status)
labelFor(rs, status) ==
    LET operationName == status.start.name
        label == orLabel(labelOf(status, labelsAt(rs._labels, operationName)),
                         labelOf(status, labelsAt(rs._labels, "*")))
        defaultLabels == rs.defaultStatusLabels
    IN IF label # NoStatusLabel THEN label
       ELSE orLabel(labelOf(status, labelsAt(defaultLabels, operationName)),
                    labelOf(status, labelsAt(defaultLabels, "*")))

\* The combined status; NoCombined is undefined.
NoCombined ==
    [defined |-> FALSE, labels |-> <<>>, processing |-> FALSE, failed |-> FALSE,
     cancelled |-> FALSE, succeed |-> FALSE]

\* combineLabels keeping the flags of the first label.
combineLabels_firstFlags(combined, label) ==
    IF label = NoStatusLabel THEN combined
    ELSE IF ~combined.defined
    THEN [defined |-> TRUE, labels |-> <<label.label>>,
          processing |-> label.processing, failed |-> label.failed,
          cancelled |-> label.cancelled, succeed |-> label.succeed]
    ELSE [combined EXCEPT !.labels = Append(@, label.label)]

\* combineLabels(combined, label)
combineLabels(combined, label) ==
    IF label = NoStatusLabel THEN combined
    ELSE IF ~combined.defined
    THEN [defined |-> TRUE, labels |-> <<label.label>>,
          processing |-> label.processing, failed |-> label.failed,
          cancelled |-> label.cancelled, succeed |-> label.succeed]
    ELSE [defined |-> TRUE,
          labels |-> IF \E i \in 1 .. Len(combined.labels) :
                            combined.labels[i] = label.label
                     THEN combined.labels
                     ELSE Append(combined.labels, label.label),
          processing |-> combined.processing \/ label.processing,
          failed |-> combined.failed \/ label.failed,
          cancelled |-> combined.cancelled \/ label.cancelled,
          succeed |-> combined.succeed \/ label.succeed]

\* The loop of the combined getter over the targets' pairs, in the order of
\* their ids.
RECURSIVE combineFrom(_, _, _)
combineFrom(rs, t, combined) ==
    IF t \notin StatusTargets THEN combined
    ELSE combineFrom(rs, t + 1,
             IF rs._targetStatuses[t] = NoStatus THEN combined
             ELSE combineLabels(combined, labelFor(rs, rs._targetStatuses[t])))

\* RikeStatus.combined: the cached status, or else the one computed.
combined(rs) ==
    IF rs._combined.defined THEN rs._combined ELSE combineFrom(rs, 1, NoCombined)
\* RikeStatus.processing / failed / cancelled / succeed / labels
processing(rs) == combined(rs).defined /\ combined(rs).processing
failed(rs) == combined(rs).defined /\ combined(rs).failed
cancelled(rs) == combined(rs).defined /\ combined(rs).cancelled
succeed(rs) == combined(rs).defined /\ combined(rs).succeed
labels(rs) == IF combined(rs).defined THEN combined(rs).labels ELSE <<>>

\* new RikeStatus(), for targets of a service with the given default labels.
RikeStatus(defaultStatusLabels) ==
    [_targetStatuses |-> <<NoStatus, NoStatus>>,
     _labels |-> LabelMap(NoLabels, NoLabels, NoLabels),
     _combined |-> NoCombined,
     defaultStatusLabels |-> defaultStatusLabels]

\* RikeStatus.applyEvent setting the end of a fresh pair on a terminal event.
applyEvent_terminalRestarts(rs, event) ==
    [rs EXCEPT !._combined = NoCombined,
               !._targetStatuses[event.target] = [start |-> event, end |-> event]]

\* RikeStatus.applyEvent(event)
applyEvent(rs, event) ==
    LET uniqueId == event.target
        targetStatus == rs._targetStatuses[uniqueId]
    IN [rs EXCEPT
          !._combined = NoCombined,
          !._targetStatuses[uniqueId] =
              IF ~complete(event) THEN [start |-> event, end |-> NoEvent]
              ELSE IF targetStatus = NoStatus
                   THEN [start |-> event, end |-> event]
                   ELSE [targetStatus EXCEPT !.end = event]]

\* withLabels that leaves the cached combined status in place.
withLabels_keepsCombined(rs, id, newLabels) ==
    [rs EXCEPT !._labels = LabelMap(IF id = "load" THEN newLabels ELSE @.load,
                                    IF id = "custom" THEN newLabels ELSE @.custom,
                                    IF id = "*" THEN newLabels ELSE @.star)]

\* RikeStatus.withLabels(operation, labels); id "*" when no operation is
\* given.
withLabels(rs, id, newLabels) ==
    [rs EXCEPT !._combined = NoCombined,
               !._labels = LabelMap(IF id = "load" THEN newLabels ELSE @.load,
                                    IF id = "custom" THEN newLabels ELSE @.custom,
                                    IF id = "*" THEN newLabels ELSE @.star)]

\* The event of a stream entry as the RikeStatus reads it.  The operations
\* of the modelled targets are named "load"; the error of a cancel event is
\* the started event that cancelled it, if any.
statusEventOf(e) ==
    StatusEvent(e.ev.kind, e.t, NameOf(e.t),
                IF e.ev.kind = "cancelled"
                THEN (IF e.ev.by = NoOp THEN NoVal ELSE "cancelledBy")
                ELSE e.ev.val)

\* RikeStatus.subscribeOn(events): applyEvent for every event delivered on
\* the next channel; what comes on the error channel is ignored.
RECURSIVE applyEvents(_, _)
applyEvents(rs, x) ==
    IF x = <<>> THEN rs
    ELSE applyEvents(IF Head(x).k = "stream" /\ Head(x).ch = "next" /\ Head(x).dlv
                     THEN applyEvent(rs, statusEventOf(Head(x)))
                     ELSE rs,
                     Tail(x))

\* The fields errors are collected for; "*" stands for the rest.
Fields == {"*", "f"}
\* this._targetErrors[id] of a target without a TargetErrors.
NoTargetErrors == [defined |-> FALSE, _errors |-> <<>>]
\* new TargetErrors(target, emitters): _errors is the sequence of its own
\* properties in insertion order.
TargetErrors(errors) == [defined |-> TRUE, _errors |-> errors]
\* new FieldEmitter(field, emitters)
FieldEmitter(field) == [_field |-> field, _counter |-> 0]
\* new ErrorSubscr(emitter, subscription)
ErrorSubscr(emitter) == [_emitter |-> emitter, _subscription |-> TRUE]
\* new ErrorCollector(eventSources).  fieldEmitters and errorSubscrs are the
\* FieldEmitter and ErrorSubscr objects made so far, in the order of their
\* making; _emitters gives the FieldEmitter registered for a field (0: none).
ErrorCollector ==
    [_initialized |-> FALSE,
     _emitters |-> [field \in Fields |-> 0],
     _targetErrors |-> <<NoTargetErrors, NoTargetErrors>>,
     fieldEmitters |-> <<>>,
     errorSubscrs |-> <<>>]

----------------------------------------------------------------------------
\* The targets, operations and subscriptions after construction.
InitOperations ==
    /\ nextOp = 1
    /\ opTarget = [o \in Ops |-> 0]
    /\ wrapped = [o \in Ops |-> FALSE]
    /\ nextSub = 1
    /\ subOp = [s \in SubIds |-> NoOp]
    /\ tr = [s \in SubIds |-> "none"]
    /\ nexted = [s \in SubIds |-> FALSE]
    /\ ostop = [s \in SubIds |-> FALSE]
    /\ _operation = [t \in Targets |-> NoOp]
    /\ _response = [t \in Targets |-> NoOp]
    /\ _observer = [t \in Targets |-> NoSub]
    /\ _subscr = [t \in Targets |-> NoSub]
    /\ stopped = [t \in Targets |-> FALSE]
    /\ serviceStopped = FALSE
    /\ superseded = [o \in Ops |-> NoOp]
    /\ out = <<>>
    /\ events = [o \in Ops |-> <<>>]
    /\ got = [s \in SubIds |-> <<>>]
    /\ last = [act |-> "init"]

Init ==
    /\ InitOperations
    /\ rikeStatus = RikeStatus(DEFAULT_STATUS_LABELS)
    /\ errorCollector = ErrorCollector

\* The subscription Rike.target makes on the target's stream: every event the
\* target's stream delivers is passed on to the service's stream, with emit()
\* from the next channel and with error(), which stops the service's stream,
\* from the error channel.
RECURSIVE forwardEvents(_, _)
forwardEvents(x, isStopped) ==
    IF x = <<>> THEN [out |-> <<>>, isStopped |-> isStopped]
    ELSE LET e == Head(x)
             forwarded == e.k = "stream" /\ e.dlv
             rest == forwardEvents(Tail(x),
                                   isStopped \/ (forwarded /\ e.ch = "error"))
         IN [out |-> <<e>>
                     \o (IF forwarded
                         THEN <<ServiceE(e.t, e.ch, e.ev, ~isStopped)>>
                         ELSE <<>>)
                     \o rest.out,
             isStopped |-> rest.isStopped]

\* The handler did x: its stream entries are added to the operations' events,
\* its caller entries to the subscriptions' notifications, and the RikeStatus
\* hears of the events the stream delivered.
IsEventOf(o, e) == e.k = "stream" /\ e.ev.op = o
IsGotOf(s, e) == e.k = "caller" /\ e.s = s
Record(x) ==
    /\ out' = forwardEvents(x, serviceStopped).out
    /\ serviceStopped' = forwardEvents(x, serviceStopped).isStopped
    /\ events' = [o \in Ops |->
                     events[o] \o SelectSeq(x, LAMBDA e : IsEventOf(o, e))]
    /\ got' = [s \in SubIds |->
                  got[s] \o SelectSeq(x, LAMBDA e : IsGotOf(s, e))]
    /\ rikeStatus' = applyEvents(rikeStatus, x)
    /\ UNCHANGED errorCollector

\* Subscription.unsubscribe(): closes an open transport subscription.
unsubscribe(trs, s) ==
    IF s # NoSub /\ trs[s] = "open" THEN [trs EXCEPT ![s] = "closed"] ELSE trs

\* RikeTargetImpl._cancel(cause): the fields and the trace entries it
\* leaves, and its return value.
_cancel(t, cause) ==
    IF _operation[t] = NoOp
    THEN [ret |-> FALSE, operation |-> _operation[t], response |-> _response[t],
          observer |-> _observer[t], subscr |-> _subscr[t], tr |-> tr,
          ostop |-> ostop, stopped |-> stopped[t], out |-> <<>>]
    ELSE LET obs == _observer[t]
             cancel == RikeCancelEvent(_operation[t], cause)
             toCaller == IF obs # NoSub /\ ~ostop[obs]
                         THEN <<CallerE(obs, "error", NoVal, cause, _operation[t])>>
                         ELSE <<>>
             toStream == IF obs # NoSub
                         THEN <<StreamE(t, "error", cancel, ~stopped[t])>>
                         ELSE <<>>
         IN [ret |-> TRUE,
             operation |-> IF obs # NoSub THEN NoOp ELSE _operation[t],
             response |-> NoOp,
             observer |-> NoSub,
             subscr |-> NoSub,
             tr |-> unsubscribe(tr, _subscr[t]),
             ostop |-> IF obs # NoSub THEN [ostop EXCEPT ![obs] = TRUE] ELSE ostop,
             stopped |-> IF obs # NoSub THEN TRUE ELSE stopped[t],
             out |-> toCaller \o toStream]

\* RikeTargetImpl.cancel()
cancel(t) ==
    LET c == _cancel(t, NoOp)
    IN /\ _operation' = [_operation EXCEPT ![t] = c.operation]
       /\ _response' = [_response EXCEPT ![t] = c.response]
       /\ _observer' = [_observer EXCEPT ![t] = c.observer]
       /\ _subscr' = [_subscr EXCEPT ![t] = c.subscr]
       /\ tr' = c.tr
       /\ ostop' = c.ostop
       /\ stopped' = [stopped EXCEPT ![t] = c.stopped]
       /\ Record(c.out)
       /\ last' = [act |-> "cancel", t |-> t, ret |-> c.ret,
                   had |-> (_operation[t] # NoOp), cur |-> _operation[t],
                   changed |-> \/ c.out # <<>>
                               \/ c.operation # _operation[t]
                               \/ c.response # _response[t]
                               \/ c.observer # _observer[t]
                               \/ c.subscr # _subscr[t]
                               \/ c.tr # tr
                               \/ c.ostop # ostop
                               \/ c.stopped # stopped[t]]
       /\ UNCHANGED <<nextOp, opTarget, wrapped, nextSub, subOp, nexted, superseded>>

\* startOperation without the emit() of the started event.
startOperation_noEmit(t, o) ==
    LET c == _cancel(t, o)
    IN [c EXCEPT !.operation = o]

\* RikeTargetImpl.startOperation(operation): cancels the current operation
\* with the new started event as the cause, emits the started event and makes
\* it current.
startOperation(t, o) ==
    LET c == _cancel(t, o)
        event == RikeOperationEvent(o)
    IN [c EXCEPT !.operation = o,
                 !.out = c.out \o <<StreamE(t, "next", event, ~c.stopped)>>]

\* The catch block of a verb method without its rikeEvents.error() call.
catchError_rethrowOnly(t, o, e, dlv) == <<StepE("throw", o)>>

\* The catch block of the verb methods, for exception e of operation o: the
\* exception is reported with rikeEvents.error() and thrown on to the caller.
catchError(t, o, e, dlv) ==
    <<StreamE(t, "error", RikeErrorEvent(o, e), dlv), StepE("throw", o)>>

\* RikeOperationImpl.load/send/get/post/put/delete/patch/head on a fresh
\* operation of target t.  hasUrl: the options end up with a URL
\* (options.url != null after requestOptions), so that requestUrl() does not
\* throw.
verb(t, v, hasUrl) ==
    /\ nextOp <= MaxOps
    /\ LET o == nextOp
           st == startOperation(t, o)
           prepare == <<StepE("prepareRequest", o)>>
                      \o (IF HasBody(v) THEN <<StepE("writeRequest", o)>> ELSE <<>>)
       IN /\ nextOp' = o + 1
          /\ opTarget' = [opTarget EXCEPT ![o] = t]
          /\ _operation' = [_operation EXCEPT ![t] = st.operation]
          /\ _observer' = [_observer EXCEPT ![t] = st.observer]
          /\ _subscr' = [_subscr EXCEPT ![t] = st.subscr]
          /\ tr' = st.tr
          /\ ostop' = st.ostop
          /\ IF hasUrl
             THEN \* internals.request(...) is called and wrapResponse() keeps
                  \* the transport observable in _response
                  /\ _response' = [_response EXCEPT ![t] = o]
                  /\ wrapped' = [wrapped EXCEPT ![o] = TRUE]
                  /\ stopped' = [stopped EXCEPT ![t] = st.stopped]
                  /\ Record(st.out \o prepare \o <<StepE("transport", o)>>)
             ELSE \* requestUrl() throws: the catch block reports it with
                  \* rikeEvents.error() and throws it on
                  /\ _response' = [_response EXCEPT ![t] = st.response]
                  /\ wrapped' = wrapped
                  /\ stopped' = [stopped EXCEPT ![t] = TRUE]
                  /\ Record(st.out \o prepare
                            \o catchError(t, o, "Request URL not specified",
                                          ~st.stopped))
          /\ last' = [act |-> "verb", t |-> t, o |-> o, threw |-> ~hasUrl,
                      prev |-> _operation[t]]
          /\ superseded' =
                IF /\ _operation[t] # NoOp
                   /\ wrapped[_operation[t]]
                   /\ \A s \in SubIds : subOp[s] = _operation[t] => ~nexted[s]
                THEN [superseded EXCEPT ![_operation[t]] = o]
                ELSE superseded
          /\ UNCHANGED <<nextSub, subOp, nexted>>

\* The subscribe function of the observable wrapResponse() returns for
\* operation o, run once per subscription of that observable.
subscribe(o) ==
    /\ wrapped[o]
    /\ nextSub <= MaxSubs
    /\ LET t == opTarget[o]
           s == nextSub
       IN /\ nextSub' = s + 1
          /\ subOp' = [subOp EXCEPT ![s] = o]
          /\ IF _response[t] # o
             THEN \* "Another request already initiated"
                  /\ tr' = [tr EXCEPT ![s] = "dead"]
                  /\ UNCHANGED <<_observer, _subscr>>
             ELSE /\ tr' = [tr EXCEPT ![s] = "open"]
                  /\ _observer' = [_observer EXCEPT ![t] = s]
                  /\ _subscr' = [_subscr EXCEPT ![t] = s]
          /\ Record(<<>>)
          /\ last' = [act |-> "subscribe", t |-> t, o |-> o, s |-> s]
          /\ UNCHANGED <<nextOp, opTarget, wrapped, nexted, ostop, _operation,
                         _response, stopped, superseded>>

\* cleanup() of wrapResponse, followed by the end of the transport
\* subscription s that has just signalled its error or completion.
cleanup(t, s) ==
    [operation |-> NoOp, response |-> NoOp, subscr |-> NoSub,
     tr |-> [unsubscribe(tr, _subscr[t]) EXCEPT ![s] = "closed"]]

\* The next handler passing on the transport response instead of the value
\* readResponse() returned.
responseOut_rawResult(s, r) ==
    LET o == subOp[s]
        t == opTarget[o]
    IN IF Decodable(r)
       THEN (IF ostop[s] THEN <<>>
             ELSE <<CallerE(s, "next", r, NoOp, _operation[t])>>)
            \o <<StreamE(t, "next", RikeSuccessEvent(o, r), ~stopped[t])>>
       ELSE <<StreamE(t, "error", RikeErrorEvent(o, DecodeError(r)), ~stopped[t])>>

\* The body of the next handler of wrapResponse, for response r of the
\* transport of subscription s: readResponse(), then the caller's observer,
\* then the success event; an exception is reported with rikeEvents.error().
responseOut(s, r) ==
    LET o == subOp[s]
        t == opTarget[o]
        value == readResponse(r)
    IN IF Decodable(r)
       THEN (IF ostop[s] THEN <<>>
             ELSE <<CallerE(s, "next", value, NoOp, _operation[t])>>)
            \o <<StreamE(t, "next", RikeSuccessEvent(o, value), ~stopped[t])>>
       ELSE <<StreamE(t, "error", RikeErrorEvent(o, DecodeError(r)), ~stopped[t])>>

\* The next handler of wrapResponse: the transport of subscription s
\* delivers response r.
onResponse(s, r) ==
    /\ tr[s] = "open"
    /\ ~nexted[s]
    /\ LET o == subOp[s]
           t == opTarget[o]
       IN /\ nexted' = [nexted EXCEPT ![s] = TRUE]
          /\ Record(responseOut(s, r))
          /\ stopped' = IF Decodable(r) THEN stopped
                        ELSE [stopped EXCEPT ![t] = TRUE]
          /\ last' = [act |-> "response", t |-> t, o |-> o, s |-> s, r |-> r]
          /\ UNCHANGED <<nextOp, opTarget, wrapped, nextSub, subOp, tr, ostop,
                         _operation, _response, _observer, _subscr, superseded>>

\* The error handler of wrapResponse: the transport of subscription s fails
\* with error e.
onError(s, e) ==
    /\ tr[s] = "open"
    /\ LET o == subOp[s]
           t == opTarget[o]
           cl == cleanup(t, s)
       IN /\ Record((IF ostop[s] THEN <<>>
                     ELSE <<CallerE(s, "error", e, NoOp, _operation[t])>>)
                    \o <<StreamE(t, "next", RikeErrorEvent(o, e), ~stopped[t])>>)
          /\ ostop' = [ostop EXCEPT ![s] = TRUE]
          /\ _operation' = [_operation EXCEPT ![t] = cl.operation]
          /\ _response' = [_response EXCEPT ![t] = cl.response]
          /\ _subscr' = [_subscr EXCEPT ![t] = cl.subscr]
          /\ tr' = cl.tr
          /\ last' = [act |-> "error", t |-> t, o |-> o, s |-> s, e |-> e]
          /\ UNCHANGED <<nextOp, opTarget, wrapped, nextSub, subOp, nexted,
                         _observer, stopped, superseded>>

\* The complete handler of wrapResponse: the transport of subscription s
\* completes.
onComplete(s) ==
    /\ tr[s] = "open"
    /\ LET o == subOp[s]
           t == opTarget[o]
           cl == cleanup(t, s)
       IN /\ Record(IF ostop[s] THEN <<>>
                    ELSE <<CallerE(s, "complete", NoVal, NoOp, _operation[t])>>)
          /\ ostop' = [ostop EXCEPT ![s] = TRUE]
          /\ _operation' = [_operation EXCEPT ![t] = cl.operation]
          /\ _response' = [_response EXCEPT ![t] = cl.response]
          /\ _subscr' = [_subscr EXCEPT ![t] = cl.subscr]
          /\ tr' = cl.tr
          /\ last' = [act |-> "complete", t |-> t, o |-> o, s |-> s]
          /\ UNCHANGED <<nextOp, opTarget, wrapped, nextSub, subOp, nexted,
                         _observer, stopped, superseded>>

----------------------------------------------------------------------------
\* Subscribers that throw.  The caller's observer is an Rx Subscriber and the
\* stream an Rx Subject: an exception thrown by a handler of the caller's
\* observer, or by a subscriber of the stream, comes out of the next(),
\* error() or emit() call that notified it, and the subscriber that threw is
\* unsubscribed.  who tells which one throws: the caller's observer
\* ("caller") or a subscriber of the target's stream ("stream").

Throwers == {"caller", "stream"}
ThrownError == "thrown1"

\* A subscriber that threw cut the notification of o short.
ThrowE(o) == StepE("subscriberThrows", o)

\* The notification of a cancellation on target t reaches the subscriber that
\* is to throw: there is an operation to cancel and an observer to notify.
cancelNotifies(t, who) ==
    /\ _operation[t] # NoOp
    /\ _observer[t] # NoSub
    /\ who = "caller" => ~ostop[_observer[t]]
    /\ who = "stream" => ~stopped[t]

\* _cancel(cause) leaving its try block by the exception without running the
\* finally blocks.
_cancelThrows_noFinally(t, cause, who) ==
    LET obs == _observer[t]
        op == _operation[t]
    IN [operation |-> op, response |-> NoOp, observer |-> obs,
        subscr |-> _subscr[t], tr |-> tr,
        ostop |-> [ostop EXCEPT ![obs] = TRUE], stopped |-> TRUE,
        out |-> <<CallerE(obs, "error", NoVal, cause, op), ThrowE(op)>>]

\* RikeTargetImpl._cancel(cause) when the notification of the cancellation
\* throws: the catch block reports the exception with rikeEvents.error() and
\* throws it on; the finally blocks clear _operation and _observer and
\* unsubscribe _subscr.
_cancelThrows(t, cause, who) ==
    LET obs == _observer[t]
        op == _operation[t]
        cancelEv == RikeCancelEvent(op, cause)
        failure == RikeErrorEvent(op, ThrownError)
        toCaller == IF ostop[obs] THEN <<>>
                    ELSE <<CallerE(obs, "error", NoVal, cause, op)>>
    IN [operation |-> NoOp, response |-> NoOp, observer |-> NoSub,
        subscr |-> NoSub,
        tr |-> unsubscribe(tr, _subscr[t]),
        ostop |-> [ostop EXCEPT ![obs] = TRUE],
        stopped |-> TRUE,
        out |-> IF who = "caller"
                THEN \* _observer.error(cancel) throws
                     toCaller \o <<ThrowE(op),
                                   StreamE(t, "error", failure, ~stopped[t])>>
                ELSE \* _rikeEvents.error(cancel) throws; it has stopped the
                     \* stream before notifying anyone
                     toCaller \o <<StreamE(t, "error", cancelEv, TRUE), ThrowE(op),
                                   StreamE(t, "error", failure, FALSE)>>]

\* RikeTargetImpl.cancel() when the notification throws: cancel() throws.
cancelThrows(t, who) ==
    /\ cancelNotifies(t, who)
    /\ LET c == _cancelThrows(t, NoOp, who)
       IN /\ _operation' = [_operation EXCEPT ![t] = c.operation]
          /\ _response' = [_response EXCEPT ![t] = c.response]
          /\ _observer' = [_observer EXCEPT ![t] = c.observer]
          /\ _subscr' = [_subscr EXCEPT ![t] = c.subscr]
          /\ tr' = c.tr
          /\ ostop' = c.ostop
          /\ stopped' = [stopped EXCEPT ![t] = c.stopped]
          /\ Record(c.out)
          /\ last' = [act |-> "cancelThrows", t |-> t, who |-> who,
                      o |-> _operation[t], subscr |-> _subscr[t]]
          /\ UNCHANGED <<nextOp, opTarget, wrapped, nextSub, subOp, nexted,
                         superseded>>

\* A verb method on a fresh operation of target t when the notification of
\* the cancellation of the current operation throws: startOperation() is
\* left before the started event is emitted, and the catch block of the verb
\* method reports the exception and throws it on.
verbThrows(t, v, who) ==
    /\ nextOp <= MaxOps
    /\ cancelNotifies(t, who)
    /\ LET o == nextOp
           c == _cancelThrows(t, o, who)
       IN /\ nextOp' = o + 1
          /\ opTarget' = [opTarget EXCEPT ![o] = t]
          /\ _operation' = [_operation EXCEPT ![t] = c.operation]
          /\ _response' = [_response EXCEPT ![t] = c.response]
          /\ _observer' = [_observer EXCEPT ![t] = c.observer]
          /\ _subscr' = [_subscr EXCEPT ![t] = c.subscr]
          /\ tr' = c.tr
          /\ ostop' = c.ostop
          /\ stopped' = [stopped EXCEPT ![t] = c.stopped]
          /\ Record(c.out \o catchError(t, o, ThrownError, FALSE))
          /\ last' = [act |-> "verbThrows", t |-> t, who |-> who, o |-> o,
                      prev |-> _operation[t], subscr |-> _subscr[t]]
          /\ UNCHANGED <<wrapped, nextSub, subOp, nexted, superseded>>

\* The next handler of wrapResponse when a subscriber throws while the
\* decoded response r is passed on: the catch block reports the exception
\* with rikeEvents.error().
onResponseThrows(s, r, who) ==
    /\ tr[s] = "open"
    /\ ~nexted[s]
    /\ Decodable(r)
    /\ who = "caller" => ~ostop[s]
    /\ who = "stream" => ~stopped[opTarget[subOp[s]]]
    /\ LET o == subOp[s]
           t == opTarget[o]
           value == readResponse(r)
           failure == RikeErrorEvent(o, ThrownError)
           toCaller == IF ostop[s] THEN <<>>
                       ELSE <<CallerE(s, "next", value, NoOp, _operation[t])>>
       IN /\ nexted' = [nexted EXCEPT ![s] = TRUE]
          /\ Record(IF who = "caller"
                    THEN \* responseObserver.next() throws
                         toCaller \o <<ThrowE(o),
                                       StreamE(t, "error", failure, ~stopped[t])>>
                    ELSE \* rikeEvents.emit() throws
                         toCaller
                         \o <<StreamE(t, "next", RikeSuccessEvent(o, value), TRUE),
                              ThrowE(o),
                              StreamE(t, "error", failure, TRUE)>>)
          /\ ostop' = IF who = "caller" THEN [ostop EXCEPT ![s] = TRUE] ELSE ostop
          /\ stopped' = [stopped EXCEPT ![t] = TRUE]
          /\ last' = [act |-> "responseThrows", t |-> t, o |-> o, s |-> s,
                      r |-> r, who |-> who, wasStopped |-> stopped[t]]
          /\ UNCHANGED <<nextOp, opTarget, wrapped, nextSub, subOp, tr,
                         _operation, _response, _observer, _subscr, superseded>>

\* The error handler of wrapResponse when a subscriber throws while the
\* transport error e is passed on: the catch block reports the exception with
\* rikeEvents.error() and cleanup() runs.
onErrorThrows(s, e, who) ==
    /\ tr[s] = "open"
    /\ who = "caller" => ~ostop[s]
    /\ who = "stream" => ~stopped[opTarget[subOp[s]]]
    /\ LET o == subOp[s]
           t == opTarget[o]
           cl == cleanup(t, s)
           failure == RikeErrorEvent(o, ThrownError)
           toCaller == IF ostop[s] THEN <<>>
                       ELSE <<CallerE(s, "error", e, NoOp, _operation[t])>>
       IN /\ Record(IF who = "caller"
                    THEN \* responseObserver.error() throws
                         toCaller \o <<ThrowE(o),
                                       StreamE(t, "error", failure, ~stopped[t])>>
                    ELSE \* rikeEvents.emit() throws
                         toCaller
                         \o <<StreamE(t, "next", RikeErrorEvent(o, e), TRUE),
                              ThrowE(o),
                              StreamE(t, "error", failure, TRUE)>>)
          /\ ostop' = [ostop EXCEPT ![s] = TRUE]
          /\ stopped' = [stopped EXCEPT ![t] = TRUE]
          /\ _operation' = [_operation EXCEPT ![t] = cl.operation]
          /\ _response' = [_response EXCEPT ![t] = cl.response]
          /\ _subscr' = [_subscr EXCEPT ![t] = cl.subscr]
          /\ tr' = cl.tr
          /\ last' = [act |-> "errorThrows", t |-> t, o |-> o, s |-> s,
                      e |-> e, who |-> who, wasStopped |-> stopped[t]]
          /\ UNCHANGED <<nextOp, opTarget, wrapped, nextSub, subOp, nexted,
                         _observer, superseded>>

----------------------------------------------------------------------------
\* The request pipeline (ng2-rike/options, ng2-rike/protocol and the verb
\* methods of RikeOperationImpl) as functions of the data.  A string is a
\* sequence of characters, every value of an options field is a sequence, and
\* Undefined stands for undefined/null.

Undefined == <<"undefined">>

\* The characters URLs are made of: "a" is a word character (\w), "#" any
\* character that is none of the others.
Chars == {"/", ":", "#", "a"}
IsWord(c) == c = "a"
Urls == UNION {[1 .. n -> Chars] : n \in 0 .. MaxUrlLen}
BaseUrls == {Undefined, <<>>, <<"a">>, <<"/", "a">>}

\* url.match(/(\w*:)?\/\//): the pattern without its anchor.
matchFullUrl_unanchored(url) ==
    \E i \in 1 .. Len(url) : i < Len(url) /\ url[i] = "/" /\ url[i + 1] = "/"

\* url.match(/^(\w*:)?\/\//)
matchFullUrl(url) ==
    LET slashes(i) == i < Len(url) /\ url[i] = "/" /\ url[i + 1] = "/"
    IN \/ slashes(1)
       \/ \E k \in 1 .. Len(url) :
              /\ url[k] = ":"
              /\ \A j \in 1 .. k - 1 : IsWord(url[j])
              /\ slashes(k + 1)

\* relativeUrl(baseUrl, url) of ng2-rike/options
relativeUrl(baseUrl, url) ==
    IF baseUrl = Undefined \/ baseUrl = <<>> THEN url
    ELSE IF url # <<>> /\ url[1] = "/" THEN url
    ELSE IF matchFullUrl(url) THEN url
    ELSE baseUrl \o <<"/">> \o url

\* Request options (RequestOptionsArgs).
NoOptions ==
    [url |-> Undefined, method |-> Undefined, search |-> Undefined,
     headers |-> Undefined, body |-> Undefined]
\* RequestOptions.merge(): the fields present in args replace those of options.
merge(options, args) ==
    LET pick(f) == IF args[f] # Undefined THEN args[f] ELSE options[f]
    IN [url |-> pick("url"), method |-> pick("method"), search |-> pick("search"),
        headers |-> pick("headers"), body |-> pick("body")]

\* Protocols.  HTTP_PROTOCOL, JSON_PROTOCOL and the TestProtocol of
\* protocol.spec are the base ones; the others are built from a protocol by
\* prepareRequestWith, writeRequestWith/updateRequestWith and handleErrorWith.
HTTP_PROTOCOL == [type |-> "http"]
JSON_PROTOCOL == [type |-> "json"]
TestProtocol == [type |-> "test"]
\* No protocol given (the optional protocol argument).
NoProtocol == [type |-> "none"]

\* The after argument: omitted, false or true.
Afters == {"omitted", "false", "true"}
truthy(after) == after = "true"

\* Functions given to prepareRequestWith: opts => new RequestOptions(opts)
\* .merge(args), and the closure of RikeTargetImpl.operation.
mergeWith(args) == [kind |-> "merge", args |-> args]
prepareOf(p) == [kind |-> "prepareOf", p |-> p]
\* Functions given to writeRequestWith/updateRequestWith: (request, opts) =>
\* new RequestOptions(opts).merge(args + a body made of the request), and the
\* closure of Protocol.updateRequestWith.
writeWith(tag, args) == [kind |-> "write", tag |-> tag, args |-> args]
updateOf(p, fn, after) == [kind |-> "update", p |-> p, fn |-> fn, after |-> after]

\* Protocol.prepareRequestWith ignoring its after argument.
prepareRequestWith_ignoresAfter(p, prepare, after) ==
    [type |-> "prepare", protocol |-> p, prepare |-> prepare, after |-> "omitted"]

\* Protocol.prepareRequestWith(prepare, after)
prepareRequestWith(p, prepare, after) ==
    [type |-> "prepare", protocol |-> p, prepare |-> prepare, after |-> after]
\* Protocol.writeRequestWith keeping the base's writer in front of the
\* function given.
writeRequestWith_keepsBase(p, fn) ==
    [type |-> "write", protocol |-> p, writeRequest |-> updateOf(p, fn, "true")]

\* Protocol.writeRequestWith(writeRequest)
writeRequestWith(p, fn) == [type |-> "write", protocol |-> p, writeRequest |-> fn]
\* Protocol.updateRequestWith(updateRequest, after)
updateRequestWith(p, updateRequest, after) ==
    writeRequestWith(p, updateOf(p, updateRequest, after))
\* Functions given to readResponseWith (() => ({response2: "response2"})) and
\* to handleErrorWith (error => ({error: error})).
ResponseReaders == {"response2", "response3"}
ErrorHandlers == {"handler1", "handler2"}
\* A call reader(response) and a call errorHandler(error).
callReader(reader, response) == <<reader>>
callHandler(errorHandler, error) ==
    IF error = "error1" THEN "{error: error1}" ELSE "{error: error}"

\* Protocol.readResponseWith(readResponse), and its override in
\* ReadResponseProtocol, which builds on the protocol underneath.
readResponseWith(p, reader) ==
    [type |-> "read",
     protocol |-> IF p.type = "read" THEN p.protocol ELSE p,
     readResponse |-> reader]
\* Protocol.handleErrorWith(errorHandler), and its override in
\* HandleErrorProtocol, which builds on the protocol underneath.
handleErrorWith(p, errorHandler) ==
    [type |-> "handleError",
     protocol |-> IF p.type = "handleError" THEN p.protocol ELSE p,
     handleError |-> errorHandler]

\* CRUDResource.objectUrl(baseUrl, id); an identifier is modelled by the
\* characters of id.toString().
objectUrl(baseUrl, id) == relativeUrl(baseUrl, id)
\* The function CRUDResource gives to updateRequestWith: (object, options) =>
\* new RequestOptions(options).merge({url: objectUrl(options.url, id)}), id
\* being objectId(object).
objectUrlOf(id) == [kind |-> "objectUrl", id |-> id]
\* CRUDResource.objectDeleteProtocol(object) on a target with the given
\* protocol; the response reader returns the object.
objectDeleteProtocol(targetProtocol, id) ==
    readResponseWith(updateRequestWith(targetProtocol, objectUrlOf(id), "omitted"),
                     "response2")

RECURSIVE prepareRequest(_, _), writeRequest(_, _, _)

\* protocol.prepareRequest(options)
prepareRequest(p, options) ==
    LET call(fn, o) == IF fn.kind = "merge" THEN merge(o, fn.args)
                       ELSE prepareRequest(fn.p, o)
    IN CASE p.type \in {"http", "json"} -> options
         [] p.type = "test" ->
                merge(options, [NoOptions EXCEPT !.url = <<"/", "a">>,
                                                 !.search = <<"prepared">>])
         [] p.type = "prepare" ->
                IF truthy(p.after)
                THEN call(p.prepare, prepareRequest(p.protocol, options))
                ELSE prepareRequest(p.protocol, call(p.prepare, options))
         [] p.type \in {"write", "read", "handleError"} ->
                prepareRequest(p.protocol, options)

RECURSIVE callWrite(_, _, _)
\* protocol.writeRequest(request, options)
writeRequest(p, request, options) ==
    CASE p.type = "http" ->
             merge(options, [NoOptions EXCEPT !.body = request])
      [] p.type = "json" ->
             LET opts == merge(options,
                               [NoOptions EXCEPT !.body = <<"json">> \o request])
                 headers == IF opts.headers = Undefined THEN <<>>
                            ELSE SelectSeq(opts.headers,
                                           LAMBDA h : h # "application/json")
             IN [opts EXCEPT !.headers = headers \o <<"application/json">>]
      [] p.type = "test" ->
             merge(options, [NoOptions EXCEPT !.body = <<"written1">> \o request])
      [] p.type = "write" -> callWrite(p.writeRequest, request, options)
      [] p.type \in {"prepare", "read", "handleError"} ->
             writeRequest(p.protocol, request, options)

\* A call fn(request, options) of a request writer function.
callWrite(fn, request, options) ==
    IF fn.kind = "write"
    THEN merge(options, [fn.args EXCEPT !.body = <<fn.tag>> \o request])
    ELSE IF fn.kind = "objectUrl"
    THEN merge(options, [NoOptions EXCEPT !.url = objectUrl(options.url, fn.id)])
    ELSE IF ~truthy(fn.after)
         THEN writeRequest(fn.p, request, callWrite(fn.fn, request, options))
         ELSE callWrite(fn.fn, request, writeRequest(fn.p, request, options))

RECURSIVE protocolReadResponse(_, _)
\* protocol.readResponse(response)
protocolReadResponse(p, response) ==
    CASE p.type = "http" -> response
      [] p.type = "json" -> <<"json">> \o response
      [] p.type = "test" -> <<"response1">>
      [] p.type = "read" -> callReader(p.readResponse, response)
      [] p.type \in {"prepare", "write", "handleError"} ->
             protocolReadResponse(p.protocol, response)

RECURSIVE handleError(_)
\* protocol.handleError: the error handler of the protocol, if any.  The
\* derived protocols copy the property in their constructors.
handleError(p) ==
    CASE p.type \in {"http", "json", "test"} -> Undefined
      [] p.type = "handleError" -> <<p.handleError>>
      [] p.type \in {"prepare", "write", "read"} -> handleError(p.protocol)

\* RikeTargetImpl.operation(name, protocol) wrapping the protocol so that
\* the target's prepareRequest runs after the operation's one.
operation_targetLast(targetProtocol, protocol) ==
    IF protocol = NoProtocol THEN targetProtocol
    ELSE IF targetProtocol = HTTP_PROTOCOL THEN protocol
    ELSE prepareRequestWith(protocol, prepareOf(targetProtocol), "true")

\* RikeTargetImpl.operation(name, protocol): the protocol of the operation.
operation(targetProtocol, protocol) ==
    IF protocol = NoProtocol THEN targetProtocol
    ELSE IF targetProtocol = HTTP_PROTOCOL THEN protocol
    ELSE prepareRequestWith(protocol, prepareOf(targetProtocol), "omitted")

\* The method a verb passes to requestOptions.
verbMethod(v) ==
    CASE v \in {"load", "send"} -> Undefined
      [] v = "get" -> <<"GET">>
      [] v = "post" -> <<"POST">>
      [] v = "put" -> <<"PUT">>
      [] v = "delete" -> <<"DELETE">>
      [] v = "patch" -> <<"PATCH">>
      [] v = "head" -> <<"HEAD">>

\* The function of Rike._internals a verb calls.
internalsOf(v) == IF v \in {"load", "send"} THEN "request" ELSE v

\* An operation as the pipeline sees it: its accumulated options
\* (withOptions/withUrl/withMethod), its protocol, its target's base URL.
Operation(options, protocol, baseUrl) ==
    [options |-> options, protocol |-> protocol, baseUrl |-> baseUrl]

\* requestOptions merging the operation's options over the per-call ones.
mergedOptions_operationWins(op, method, url, options) ==
    LET opts == IF options = NoOptions
                THEN [NoOptions EXCEPT !.url = url, !.method = method]
                ELSE merge(options, [NoOptions EXCEPT !.url = url, !.method = method])
    IN merge(opts, op.options)

\* RikeOperationImpl.requestOptions up to this.options.merge(options).
mergedOptions(op, method, url, options) ==
    LET opts == IF options = NoOptions
                THEN [NoOptions EXCEPT !.url = url, !.method = method]
                ELSE merge(options, [NoOptions EXCEPT !.url = url, !.method = method])
    IN merge(op.options, opts)

\* requestOptions resolving the URL without the target's base URL.
resolvedOptions_noBase(op, method, url, options) ==
    mergedOptions(op, method, url, options)

\* RikeOperationImpl.requestOptions up to the call of prepareRequest: the
\* URL is the target's base URL, or is resolved against it.
resolvedOptions(op, method, url, options) ==
    LET opts == mergedOptions(op, method, url, options)
    IN [opts EXCEPT !.url = IF opts.url = Undefined THEN op.baseUrl
                             ELSE relativeUrl(op.baseUrl, opts.url)]

\* Rike.updateRequestOptions(options) with the global base URL.
updateRequestOptions(globalBaseUrl, options) ==
    IF options.url # Undefined
    THEN [options EXCEPT !.url = relativeUrl(globalBaseUrl, options.url)]
    ELSE options

\* The method Http uses for a call of internals function fn: request() falls
\* back to GET when the options name none.
httpMethod(fn, options) ==
    IF fn = "request" /\ options.method = Undefined THEN <<"GET">>
    ELSE options.method

\* Entries of out: a call of a pipeline step, with its arguments and result.
CallE(name, request, arg, ret) ==
    [k |-> "call", name |-> name, request |-> request, arg |-> arg, ret |-> ret]
\* The call of Http that Rike._internals makes: function fn of Http with the
\* URL, the body (post, put and patch) and the options.
HttpE(fn, url, body, options) ==
    [k |-> "http", fn |-> fn, url |-> url, body |-> body, options |-> options,
     method |-> httpMethod(fn, options)]

\* A verb method that writes the request whatever the verb.
verbRequest_alwaysWrites(op, globalBaseUrl, v, request, url, options) ==
    LET arg == resolvedOptions(op, verbMethod(v), url, options)
        prepared == prepareRequest(op.protocol, arg)
        written == writeRequest(op.protocol, request, prepared)
    IN <<CallE("prepareRequest", Undefined, arg, prepared),
         CallE("writeRequest", request, prepared, written)>>
       \o (IF written.url = Undefined THEN <<CallE("throw", Undefined, written, Undefined)>>
           ELSE <<HttpE(internalsOf(v), relativeUrl(globalBaseUrl, written.url),
                        written.body, updateRequestOptions(globalBaseUrl, written))>>)

\* The calls a verb method makes after startOperation(): requestOptions()
\* with protocol.prepareRequest, writeRequest() for the verbs with a body,
\* requestUrl(), and the function of Rike._internals with its call of Http.
verbRequest(op, globalBaseUrl, v, request, url, options) ==
    LET arg == resolvedOptions(op, verbMethod(v), url, options)
        prepared == prepareRequest(op.protocol, arg)
        written == IF HasBody(v) THEN writeRequest(op.protocol, request, prepared)
                   ELSE prepared
        body == IF v \in {"post", "put", "patch"} THEN written.body ELSE Undefined
    IN <<CallE("prepareRequest", Undefined, arg, prepared)>>
       \o (IF HasBody(v) THEN <<CallE("writeRequest", request, prepared, written)>>
           ELSE <<>>)
       \o (IF written.url = Undefined
           THEN \* requestUrl() throws
                <<CallE("throw", Undefined, written, Undefined)>>
           ELSE <<HttpE(internalsOf(v), relativeUrl(globalBaseUrl, written.url),
                        body, updateRequestOptions(globalBaseUrl, written))>>)

\* The inputs of the pipeline.
Requests == {<<"request1">>}
ArgUrls == {Undefined, <<"a">>, <<"/", "a">>}
CallOptions ==
    {[NoOptions EXCEPT !.url = u, !.method = m, !.search = q] :
        u \in {Undefined, <<"a", "a">>}, m \in {Undefined, <<"PUT">>},
        q \in {Undefined, <<"q1">>}}
OperationOptions ==
    {[NoOptions EXCEPT !.url = u, !.method = m, !.search = q] :
        u \in {Undefined, <<"a", "#">>}, m \in {Undefined, <<"OPTIONS">>},
        q \in {Undefined, <<"q2">>}}
TargetBaseUrls == {Undefined, <<"a">>, <<"/", "a">>}
GlobalBaseUrls == {Undefined, <<"/", "a">>}
PrepareFns ==
    {mergeWith([NoOptions EXCEPT !.search = <<"updated">>]),
     mergeWith([NoOptions EXCEPT !.url = <<"a", "a">>]),
     mergeWith([NoOptions EXCEPT !.url = <<"a", "a">>, !.search = <<"updated">>])}
UpdateFns ==
    {writeWith("rewritten1", NoOptions),
     writeWith("rewritten1", [NoOptions EXCEPT !.search = <<"updated">>]),
     writeWith("rewritten1", [NoOptions EXCEPT !.headers = <<"text/plain">>])}
BaseProtocols == {HTTP_PROTOCOL, JSON_PROTOCOL, TestProtocol}
TargetProtocols ==
    BaseProtocols
    \cup {handleErrorWith(HTTP_PROTOCOL, "handler1")}
    \cup {prepareRequestWith(HTTP_PROTOCOL, f, "true") : f \in PrepareFns}
OperationProtocols ==
    {NoProtocol} \cup BaseProtocols
    \cup {prepareRequestWith(TestProtocol, f, a) : f \in PrepareFns, a \in Afters}
PreparedOptions ==
    {[NoOptions EXCEPT !.url = u, !.search = q] :
        u \in {Undefined, <<"a">>}, q \in {Undefined, <<"q1">>}}

\* No handler or function has run yet.
pristine == last.act = "init"

\* A call of relativeUrl(baseUrl, url).
callRelativeUrl(baseUrl, url) ==
    /\ out' = <<>>
    /\ last' = [act |-> "relativeUrl", baseUrl |-> baseUrl, url |-> url,
                ret |-> relativeUrl(baseUrl, url)]
    /\ UNCHANGED <<nextOp, opTarget, wrapped, nextSub, subOp, tr, nexted, ostop,
                   _operation, _response, _observer, _subscr, stopped,
                   serviceStopped, superseded, events, got, rikeStatus,
                   errorCollector>>

\* A call of verb v with the given request, URL and options arguments, on an
\* operation op of a target of a service with the given global base URL.
callVerb(op, globalBaseUrl, v, request, url, options) ==
    /\ out' = verbRequest(op, globalBaseUrl, v, request, url, options)
    /\ last' = [act |-> "request", op |-> op, globalBaseUrl |-> globalBaseUrl,
                v |-> v, request |-> request, url |-> url, options |-> options]
    /\ UNCHANGED <<nextOp, opTarget, wrapped, nextSub, subOp, tr, nexted, ostop,
                   _operation, _response, _observer, _subscr, stopped,
                   serviceStopped, superseded, events, got, rikeStatus,
                   errorCollector>>

\* The RequestOptions objects of a verb call, as objects: heap[i] is the
\* object i.  RequestOptions.merge() makes a new object, an assignment to
\* options.url writes into the object options refers to.

\* requestOptions with a merge that writes into the operation's own options.
requestOptions_mergesInPlace(heap, this, baseUrl, method, url, options) ==
    LET arg == [NoOptions EXCEPT !.url = url, !.method = method]
        h1 == Append(heap, IF options = NoOptions THEN arg ELSE merge(options, arg))
        h2 == [h1 EXCEPT ![this] = merge(h1[this], h1[Len(h1)])]
    IN [heap |-> [h2 EXCEPT ![this].url =
                     IF @ = Undefined THEN baseUrl ELSE relativeUrl(baseUrl, @)],
        options |-> this]

\* RikeOperationImpl.requestOptions(method, url, options) up to the call of
\* prepareRequest, on the operation whose _options is the object this: the
\* objects after the call, and the object handed to prepareRequest.
requestOptions(heap, this, baseUrl, method, url, options) ==
    LET arg == [NoOptions EXCEPT !.url = url, !.method = method]
        \* options = {url, method}, or
        \* new RequestOptions(options).merge({url, method})
        h1 == Append(heap, IF options = NoOptions THEN arg ELSE merge(options, arg))
        \* options = this.options.merge(options)
        h2 == Append(h1, merge(h1[this], h1[Len(h1)]))
        merged == Len(h2)
    IN [heap |-> [h2 EXCEPT ![merged].url =
                     IF @ = Undefined THEN baseUrl ELSE relativeUrl(baseUrl, @)],
        options |-> merged]

\* Two verb calls in a row on one operation: verb v with url and options,
\* then verb v with url2 alone.
callVerbAgain(op, v, url, options, url2) ==
    /\ LET first == requestOptions(<<op.options>>, 1, op.baseUrl, verbMethod(v),
                                   url, options)
           second == requestOptions(first.heap, 1, op.baseUrl, verbMethod(v),
                                    url2, NoOptions)
       IN last' = [act |-> "verbAgain", op |-> op, v |-> v, url |-> url,
                   options |-> options, url2 |-> url2,
                   first |-> first.heap[first.options],
                   afterFirst |-> first.heap[1],
                   second |-> second.heap[second.options],
                   afterSecond |-> second.heap[1]]
    /\ out' = <<>>
    /\ UNCHANGED <<nextOp, opTarget, wrapped, nextSub, subOp, tr, nexted, ostop,
                   _operation, _response, _observer, _subscr, stopped,
                   serviceStopped, superseded, events, got, rikeStatus,
                   errorCollector>>

\* target.operation(name, protocol).protocol.prepareRequest(options) on a
\* target with the given protocol.
callOperation(targetProtocol, protocol, options) ==
    /\ out' = <<>>
    /\ last' = [act |-> "operation", targetProtocol |-> targetProtocol,
                protocol |-> protocol, options |-> options,
                opProtocol |-> operation(targetProtocol, protocol),
                ret |-> prepareRequest(operation(targetProtocol, protocol),
                                       options)]
    /\ UNCHANGED <<nextOp, opTarget, wrapped, nextSub, subOp, tr, nexted, ostop,
                   _operation, _response, _observer, _subscr, stopped,
                   serviceStopped, superseded, events, got, rikeStatus,
                   errorCollector>>

\* base.prepareRequestWith(fn, after).prepareRequest(options)
callPrepareRequestWith(base, fn, after, options) ==
    /\ out' = <<>>
    /\ last' = [act |-> "prepareRequestWith", base |-> base, fn |-> fn,
                after |-> after, options |-> options,
                ret |-> prepareRequest(prepareRequestWith(base, fn, after),
                                       options)]
    /\ UNCHANGED <<nextOp, opTarget, wrapped, nextSub, subOp, tr, nexted, ostop,
                   _operation, _response, _observer, _subscr, stopped,
                   serviceStopped, superseded, events, got, rikeStatus,
                   errorCollector>>

\* base.updateRequestWith(fn, after).writeRequest(request, options)
callUpdateRequestWith(base, fn, after, request, options) ==
    /\ out' = <<>>
    /\ last' = [act |-> "updateRequestWith", base |-> base, fn |-> fn,
                after |-> after, request |-> request, options |-> options,
                ret |-> writeRequest(updateRequestWith(base, fn, after),
                                     request, options)]
    /\ UNCHANGED <<nextOp, opTarget, wrapped, nextSub, subOp, tr, nexted, ostop,
                   _operation, _response, _observer, _subscr, stopped,
                   serviceStopped, superseded, events, got, rikeStatus,
                   errorCollector>>

\* Rike.target(target, protocol): the protocol of the new target, on a
\* service with the given default error handler (Undefined: none).
target(protocol, defaultErrorHandler) ==
    LET proto == IF protocol = NoProtocol THEN HTTP_PROTOCOL ELSE protocol
    IN IF handleError(proto) = Undefined /\ defaultErrorHandler # Undefined
       THEN handleErrorWith(proto, defaultErrorHandler[1])
       ELSE proto
\* The protocol of the operations of the modelled targets: made by
\* target.operation(name) on a target of a service whose default error
\* handler is configured.
operationProtocol(o) == operation(target(NoProtocol, <<"handler1">>), NoProtocol)

\* The identifiers of the objects of a resource, as id.toString().
ObjectIds == {<<"a">>, <<"a", "a">>}
\* CRUDResource.delete(object): the calls made by
\* rikeTarget.operation("delete", objectDeleteProtocol(object)).delete() on
\* the target createRikeTarget() makes, which has the JSON protocol and the
\* given base URL.
crudDelete(baseUrl, globalBaseUrl, id) ==
    LET targetProtocol == target(JSON_PROTOCOL, <<"handler1">>)
        op == Operation(NoOptions,
                        operation(targetProtocol,
                                  objectDeleteProtocol(targetProtocol, id)),
                        baseUrl)
    IN verbRequest(op, globalBaseUrl, "delete", Undefined, Undefined, NoOptions)

\* A call of delete(object) on a CRUD resource.
callDelete(baseUrl, globalBaseUrl, id) ==
    /\ out' = crudDelete(baseUrl, globalBaseUrl, id)
    /\ last' = [act |-> "crudDelete", baseUrl |-> baseUrl,
                globalBaseUrl |-> globalBaseUrl, id |-> id]
    /\ UNCHANGED <<nextOp, opTarget, wrapped, nextSub, subOp, tr, nexted, ostop,
                   _operation, _response, _observer, _subscr, stopped,
                   serviceStopped, superseded, events, got, rikeStatus,
                   errorCollector>>

\* The composition operators of Protocol and the functions given to them.
Compositions == {"prepareRequestWith", "writeRequestWith", "updateRequestWith",
                 "readResponseWith", "handleErrorWith"}
ComposeFns(opr) ==
    CASE opr = "prepareRequestWith" -> PrepareFns
      [] opr \in {"writeRequestWith", "updateRequestWith"} -> UpdateFns
      [] opr = "readResponseWith" -> ResponseReaders
      [] opr = "handleErrorWith" -> ErrorHandlers
\* The protocols the operators are applied to: the plain ones and one
\* derived with each kind of operator.
ComposeBases ==
    BaseProtocols
    \cup {prepareRequestWith(TestProtocol,
              mergeWith([NoOptions EXCEPT !.search = <<"updated">>]), "true"),
          writeRequestWith(JSON_PROTOCOL, writeWith("rewritten1", NoOptions)),
          readResponseWith(TestProtocol, "response3"),
          handleErrorWith(JSON_PROTOCOL, "handler2")}
\* Transport responses given to readResponse.
HttpResponses == {<<"r1">>, <<"r2">>}

\* base.<opr>(fn, after): the new protocol.
compose(opr, base, fn, after) ==
    CASE opr = "prepareRequestWith" -> prepareRequestWith(base, fn, after)
      [] opr = "writeRequestWith" -> writeRequestWith(base, fn)
      [] opr = "updateRequestWith" -> updateRequestWith(base, fn, after)
      [] opr = "readResponseWith" -> readResponseWith(base, fn)
      [] opr = "handleErrorWith" -> handleErrorWith(base, fn)

\* A call of a composition operator on protocol base.
callCompose(opr, base, fn, after) ==
    /\ out' = <<>>
    /\ last' = [act |-> "compose", opr |-> opr, base |-> base, fn |-> fn,
                after |-> after, ret |-> compose(opr, base, fn, after)]
    /\ UNCHANGED <<nextOp, opTarget, wrapped, nextSub, subOp, tr, nexted, ostop,
                   _operation, _response, _observer, _subscr, stopped,
                   serviceStopped, superseded, events, got, rikeStatus,
                   errorCollector>>

----------------------------------------------------------------------------
\* Error responses (ng2-rike/error-response).
\*
\* JavaScript values are records tagged by t.  A string is the sequence of its
\* pieces (<<>> is the empty string); an object is the sequence of its own
\* properties in insertion order.

Null == [t |-> "null"]
Undef == [t |-> "undefined"]
Str(v) == [t |-> "string", v |-> v]
Arr(items) == [t |-> "array", items |-> items]
Obj(fields) == [t |-> "object", fields |-> fields]
Prop(name, value) == [name |-> name, value |-> value]
\* A transport response with a Content-Type header, a status and a body that
\* is either a value response.json() returns or one it cannot parse.
Response(contentType, status, statusText, body) ==
    [t |-> "Response", contentType |-> contentType, status |-> status,
     statusText |-> statusText, body |-> body]
Unparseable == [t |-> "unparseable"]
\* The outcome of a call that throws.
Thrown == [t |-> "throw"]

\* data == null
isNull(data) == data.t \in {"null", "undefined"}
\* data[name]
get(data, name) ==
    IF data.t = "object" /\ \E i \in 1 .. Len(data.fields) : data.fields[i].name = name
    THEN data.fields[CHOOSE i \in 1 .. Len(data.fields) :
                         data.fields[i].name = name].value
    ELSE Undef

RECURSIVE toString(_)
\* data.toString()
toString(data) ==
    CASE data.t = "string" -> data.v
      [] data.t = "array" ->
             IF data.items = <<>> THEN <<>>
             ELSE IF Len(data.items) = 1
                  THEN (IF isNull(data.items[1]) THEN <<>>
                        ELSE toString(data.items[1]))
                  ELSE <<",">>
      [] data.t = "Response" -> <<"Response with status: ", data.status>>
      [] OTHER -> <<"[object Object]">>

\* A field error: code and message are strings or undefined.
FieldError(code, message) == [code |-> code, message |-> message]

\* toFieldError(data)
toFieldError(data) ==
    IF isNull(data) THEN FieldError(Undefined, <<>>)
    ELSE LET message == get(data, "message")
             code == get(data, "code")
         IN IF /\ message.t = "string"
               /\ (isNull(code) \/ code = Str(<<"string">>))
            THEN FieldError(IF isNull(code) THEN Undefined ELSE code.v, message.v)
            ELSE IF ~isNull(message)
                 THEN FieldError(IF ~isNull(code) THEN toString(code) ELSE Undefined,
                                 toString(message))
                 ELSE FieldError(Undefined, toString(data))

\* notEmptyError(item)
notEmptyError(item) ==
    \/ item.message # Undefined /\ item.message # <<>>
    \/ item.code # Undefined /\ item.code # <<>>

\* data.map(toFieldError).filter(notEmptyError)
mapFilter(items) ==
    SelectSeq([i \in 1 .. Len(items) |-> toFieldError(items[i])], notEmptyError)

\* toFieldErrorArray(data)
toFieldErrorArray(data) ==
    IF isNull(data) THEN <<>>
    ELSE IF data.t = "array" THEN mapFilter(data.items)
    ELSE mapFilter(<<data>>)

\* An entry of a FieldErrors map.
FieldEntry(field, errors) == [field |-> field, errors |-> errors]
\* toFieldErrors returns undefined.
NoFieldErrors == <<>>

\* toFieldErrors(data): the entries of the map it returns, or NoFieldErrors.
\* (The map returned always has an entry.)
toFieldErrors(data) ==
    IF isNull(data) THEN NoFieldErrors
    ELSE IF data.t = "array"
    THEN LET fieldErrors == mapFilter(data.items)
         IN IF fieldErrors # <<>> THEN <<FieldEntry("*", fieldErrors)>>
            ELSE NoFieldErrors
    ELSE IF data.t = "string"
    THEN LET fieldErrors ==
                 SelectSeq(<<FieldError(Undefined, data.v)>>, notEmptyError)
         IN IF fieldErrors # <<>> THEN <<FieldEntry("*", fieldErrors)>>
            ELSE NoFieldErrors
    ELSE LET props == CASE data.t = "object" -> data.fields
                        [] data.t = "ErrorResponse" ->
                               <<Prop("response", data.response),
                                 Prop("errors", Obj(<<>>))>>
                        [] OTHER -> <<>>
             all == [i \in 1 .. Len(props) |->
                        FieldEntry(props[i].name,
                                   toFieldErrorArray(props[i].value))]
         IN SelectSeq(all, LAMBDA e : e.errors # <<>>)

\* new ErrorResponse(opts): errors is opts.errors as it is given, the entries
\* of a map (kind "map") or an array (kind "array").
ErrorResponse(response, kind, errors) ==
    [t |-> "ErrorResponse", response |-> response, kind |-> kind,
     errors |-> errors]

\* syntheticResponse(error)
syntheticResponse(error) ==
    LET statusText == IF ~isNull(error) THEN toString(error) ELSE <<>>
    IN Response("noHeaders", "500",
                IF statusText # <<>> THEN statusText ELSE <<"Unknown error">>,
                Undef)

\* defaultErrorResponse(response)
defaultErrorResponse(response) ==
    LET message == <<"ERROR ", response.status>>
                   \o (IF /\ response.statusText # <<>>
                          /\ response.statusText \notin {<<"OK">>, <<"ok">>}
                       THEN <<": ">> \o response.statusText ELSE <<>>)
    IN ErrorResponse(response, "map",
           <<FieldEntry("*", <<FieldError(<<"HTTP", response.status>>, message)>>)>>)

\* toErrorResponse(error) past its first test: the ErrorResponse made of
\* error, or Thrown.
convertError(error) ==
    IF error.t = "Response"
    THEN LET body == IF /\ error.contentType = "application/json"
                        /\ error.body # Unparseable
                     THEN error.body ELSE Undef
             fieldErrors == toFieldErrors(body)
         IN IF fieldErrors # NoFieldErrors
            THEN ErrorResponse(error, "map", fieldErrors)
            ELSE defaultErrorResponse(error)
    ELSE IF isNull(error) THEN Thrown   \* errorOpts.response of null
    ELSE IF /\ get(error, "response").t = "Response"
            /\ get(error, "errors").t = "array"
    THEN ErrorResponse(get(error, "response"), "array",
                       get(error, "errors").items)
    ELSE LET fieldErrors == toFieldErrors(error)
         IN IF fieldErrors # NoFieldErrors
            THEN ErrorResponse(syntheticResponse(Null), "map", fieldErrors)
            ELSE defaultErrorResponse(syntheticResponse(error))

\* toErrorResponse converting an ErrorResponse like any other object.
toErrorResponse_alwaysConverts(error) == convertError(error)

\* toErrorResponse(error): the ErrorResponse returned, or Thrown.
toErrorResponse(error) ==
    IF error.t = "ErrorResponse" THEN error ELSE convertError(error)

\* Values given to toErrorResponse.
Strings == {<<>>, <<"abc">>}
\* ... items of error lists
ErrorItems ==
    {Null, Str(<<>>), Str(<<"abc">>), Obj(<<>>)}
    \cup {Obj(<<Prop("message", Str(m))>>) : m \in Strings}
    \cup {Obj(<<Prop("code", Str(c))>>) : c \in Strings}
    \cup {Obj(<<Prop("code", Str(c)), Prop("message", Str(m))>>) :
             c \in {<<>>, <<"c1">>, <<"string">>}, m \in Strings}
    \cup {Obj(<<Prop("message", Obj(<<>>))>>)}
\* ... values of the fields of an object
ErrorLists ==
    {Arr(<<>>)} \cup {Arr(<<a>>) : a \in ErrorItems}
    \cup {Arr(<<a, b>>) : a, b \in {Null, Str(<<>>), Str(<<"abc">>),
                                     Obj(<<Prop("message", Str(<<>>))>>)}}
FieldValues ==
    ErrorLists
    \cup {Undef, Null, Str(<<>>), Str(<<"abc">>),
          Obj(<<Prop("message", Str(<<"abc">>))>>)}
\* ... objects with up to two fields
ErrorObjects ==
    {Obj(<<>>)}
    \cup {Obj(<<Prop("*", a)>>) : a \in FieldValues}
    \cup {Obj(<<Prop("*", a), Prop("f", b)>>) :
             a, b \in {Arr(<<>>), Arr(<<Str(<<"abc">>)>>), Str(<<>>), Null}}
\* ... transport responses
ErrorBodies == {Unparseable, Null, Str(<<"abc">>), Arr(<<>>),
                Arr(<<Str(<<"abc">>)>>), Obj(<<>>),
                Obj(<<Prop("f", Arr(<<>>))>>),
                Obj(<<Prop("f", Arr(<<Str(<<"abc">>)>>))>>)}
ErrorHttpResponses ==
    {Response(ct, st[1], st[2], b) :
        ct \in {"application/json", "text/plain"},
        st \in {<<"404", <<"Not Found">>>>, <<"200", <<"OK">>>>, <<"500", <<>>>>},
        b \in ErrorBodies}
\* ... objects with the fields of ErrorResponseOpts
ErrorOpts ==
    {Obj(<<Prop("response", Response("text/plain", "404", <<"Not Found">>, Null)),
           Prop("errors", e)>>) :
        e \in {Arr(<<>>), Arr(<<Obj(<<Prop("message", Str(<<"abc">>))>>)>>),
               Obj(<<Prop("*", Arr(<<>>))>>),
               Obj(<<Prop("*", Arr(<<Obj(<<Prop("message", Str(<<"abc">>))>>)>>))>>)}}
\* ... error responses made before
ErrorResponses ==
    {toErrorResponse(x) : x \in {Str(<<"abc">>), Arr(<<Str(<<"abc">>)>>),
                                 Response("text/plain", "404", <<"Not Found">>, Null)}}
ErrorInputs ==
    {Null, Undef, Str(<<>>), Str(<<"abc">>)} \cup ErrorLists \cup ErrorObjects
    \cup ErrorHttpResponses \cup ErrorOpts \cup ErrorResponses

\* A call toErrorResponse(error), and the call of toErrorResponse on what it
\* returned.
callToErrorResponse(error) ==
    /\ out' = <<>>
    /\ last' = [act |-> "toErrorResponse", error |-> error,
                ret |-> toErrorResponse(error),
                again |-> IF toErrorResponse(error) = Thrown THEN Thrown
                          ELSE toErrorResponse(toErrorResponse(error))]
    /\ UNCHANGED <<nextOp, opTarget, wrapped, nextSub, subOp, tr, nexted, ostop,
                   _operation, _response, _observer, _subscr, stopped,
                   serviceStopped, superseded, events, got, rikeStatus,
                   errorCollector>>

----------------------------------------------------------------------------
\* The error collector (ng2-rike/error-collector).

\* A property of an errors map.
HasField(errs, field) == \E i \in 1 .. Len(errs) : errs[i].field = field
\* this._errors[field]: the value stored (an array or undefined).
errorsAt(errs, field) ==
    IF HasField(errs, field)
    THEN errs[CHOOSE i \in 1 .. Len(errs) : errs[i].field = field].errors
    ELSE Undef
\* this._errors[field] = value
putErrors(errs, field, value) ==
    IF HasField(errs, field)
    THEN [i \in 1 .. Len(errs) |->
             IF errs[i].field = field THEN FieldEntry(field, value) ELSE errs[i]]
    ELSE Append(errs, FieldEntry(field, value))

\* TargetErrors.add(field, ...errors)
add(errs, field, errors) ==
    LET existing == errorsAt(errs, field)
    IN IF existing.t # "array"      \* !existing
       THEN putErrors(errs, field, existing)
       ELSE putErrors(errs, field, Arr(existing.items \o errors))

\* TargetErrors.addAll(errors): add for every field of errors.
RECURSIVE addAll(_, _)
addAll(errs, errors) ==
    IF errors = <<>> THEN errs
    ELSE addAll(add(errs, Head(errors).field, Head(errors).errors), Tail(errors))

\* appendErrorsTo(field, fieldErrors, errors)
appendErrorsTo(field, fieldErrors, errors) ==
    IF errors.t # "array" \/ errors.items = <<>> THEN fieldErrors
    ELSE IF HasField(fieldErrors, field)
    THEN [i \in 1 .. Len(fieldErrors) |->
             IF fieldErrors[i].field = field
             THEN FieldEntry(field, fieldErrors[i].errors \o errors.items)
             ELSE fieldErrors[i]]
    ELSE Append(fieldErrors, FieldEntry(field, errors.items))

\* The loop of appendTo("*", out) over the properties of _errors.
RECURSIVE appendRest(_, _, _)
appendRest(errs, emitters, result) ==
    IF errs = <<>> THEN result
    ELSE appendRest(Tail(errs), emitters,
             IF emitters[Head(errs).field] = 0
             THEN appendErrorsTo(Head(errs).field, result, Head(errs).errors)
             ELSE result)

\* TargetErrors.appendTo(field, out)
appendTo(te, emitters, field, result) ==
    IF field # "*"
    THEN appendErrorsTo(field, result, errorsAt(te._errors, field))
    ELSE appendRest(te._errors, emitters, result)

\* The loop of notify over the targets with a TargetErrors, in the order of
\* their ids.
RECURSIVE appendFrom(_, _, _, _)
appendFrom(ec, t, field, errors) ==
    IF t \notin StatusTargets THEN errors
    ELSE appendFrom(ec, t + 1, field,
             IF ec._targetErrors[t].defined
             THEN appendTo(ec._targetErrors[t], ec._emitters, field, errors)
             ELSE errors)

\* ErrorCollector.notify(field): what is emitted to the subscribers of the
\* field, if it has an emitter.
notify(ec, field) ==
    IF ec._emitters[field] = 0 THEN <<>>
    ELSE <<[k |-> "errors", field |-> field,
            errors |-> appendFrom(ec, 1, field, <<>>)]>>

\* The loop of handleEvent over the affected fields.
RECURSIVE notifyAll(_, _)
notifyAll(ec, affectedFields) ==
    IF affectedFields = <<>> THEN <<>>
    ELSE notify(ec, Head(affectedFields).field)
         \o notifyAll(ec, Tail(affectedFields))

\* !error
falsy(error) == isNull(error) \/ error = Str(<<>>)

\* ErrorCollector.targetErrors(target)
targetErrors(ec, id) ==
    IF ec._targetErrors[id].defined THEN ec
    ELSE [ec EXCEPT !._targetErrors[id] = TargetErrors(<<>>)]

\* handleEvent that leaves the target's errors in place on an event without
\* error.
handleEvent_keepsErrors(ec, event) ==
    IF falsy(event.error)
    THEN [ec |-> ec, errors |-> <<>>,
          out |-> notifyAll(ec, ec._targetErrors[event.target]._errors)]
    ELSE [ec |-> [targetErrors(ec, event.target) EXCEPT
                     !._targetErrors[event.target]._errors =
                         addAll(@, toErrorResponse(event.error).errors)],
          errors |-> toErrorResponse(event.error).errors,
          out |-> notifyAll(targetErrors(ec, event.target),
                            toErrorResponse(event.error).errors)]

\* ErrorCollector.handleEvent(event): the collector it leaves, the field
\* errors obtained from the event's error and the notifications emitted.
handleEvent(ec, event) ==
    LET id == event.target
        error == event.error
    IN IF falsy(error)
       THEN \* clearTargetErrors(event.target)
            LET affectedFields == ec._targetErrors[id]._errors
                cleared == [ec EXCEPT !._targetErrors[id] = NoTargetErrors]
            IN [ec |-> cleared, errors |-> <<>>,
                out |-> notifyAll(cleared, affectedFields)]
       ELSE LET errors == toErrorResponse(error).errors
                added == [targetErrors(ec, id) EXCEPT
                             !._targetErrors[id]._errors = addAll(@, errors)]
            IN [ec |-> added, errors |-> errors,
                out |-> notifyAll(added, errors)]

\* ErrorCollector.handleError(error), called with what comes on the error
\* channel of a stream; it throws when error.error is undefined.
collectorHandleError(ec, error) ==
    LET id == error.target
        had == targetErrors(ec, id)
    IN IF isNull(error.error)
       THEN [ec |-> had, thrown |-> TRUE, out |-> <<>>]
       ELSE LET added ==
                    [had EXCEPT !._targetErrors[id]._errors =
                        add(@, "*", <<FieldError(Undefined,
                                                 toString(error.error))>>)]
            IN [ec |-> added, thrown |-> FALSE, out |-> notify(added, "*")]

\* An event as the collector reads it: its target and its error.
CollectorEvent(t, error) == [target |-> t, error |-> error]
\* The errors of the events on the streams: none (a started or succeeded
\* event) or what the transport failed with.
CollectorErrors ==
    {Undef, Str(<<>>), Str(<<"abc">>),
     Response("text/plain", "404", <<"Not Found">>, Null),
     Response("application/json", "400", <<>>,
              Obj(<<Prop("f", Arr(<<Str(<<"abc">>)>>))>>)),
     Response("application/json", "400", <<>>,
              Obj(<<Prop("f", Arr(<<Obj(<<Prop("message", Str(<<"m1">>))>>)>>)),
                    Prop("*", Str(<<"abc">>))>>))}
CollectorEvents ==
    {CollectorEvent(t, error) : t \in StatusTargets, error \in CollectorErrors}
\* The cancel events on the error channel: cancelled by a started event, or
\* by cancel().
CollectorCancels ==
    {CollectorEvent(t, by) : t \in StatusTargets, by \in {Undef, Obj(<<>>)}}

\* ErrorCollector.fieldEmitter(field): the collector with an emitter
\* registered for the field.
fieldEmitter(ec, field) ==
    IF ec._emitters[field] # 0 THEN ec
    ELSE [ec EXCEPT !.fieldEmitters = Append(@, FieldEmitter(field)),
                    !._emitters[field] = Len(ec.fieldEmitters) + 1]

\* ErrorCollector.subscribe(field, next): init(), then
\* FieldEmitter.subscribe on the field's emitter.
fieldSubscribe(ec, field) ==
    LET had == fieldEmitter(ec, field)
        emitter == had._emitters[field]
    IN [had EXCEPT !._initialized = TRUE,
                   !.fieldEmitters[emitter]._counter = @ + 1,
                   !.errorSubscrs = Append(@, ErrorSubscr(emitter))]

\* ErrorSubscr.unsubscribe() without the test of this._subscription.
subscrUnsubscribe_again(ec, s) ==
    LET emitter == ec.errorSubscrs[s]._emitter
        counter == ec.fieldEmitters[emitter]._counter - 1
    IN [ec EXCEPT !.errorSubscrs[s]._subscription = FALSE,
                  !.fieldEmitters[emitter]._counter = counter,
                  !._emitters[ec.fieldEmitters[emitter]._field] =
                      IF counter = 0 THEN 0 ELSE @]

\* ErrorSubscr.unsubscribe() of the subscription s, with
\* FieldEmitter.unsubscribed().
subscrUnsubscribe(ec, s) ==
    IF ~ec.errorSubscrs[s]._subscription THEN ec
    ELSE LET emitter == ec.errorSubscrs[s]._emitter
             counter == ec.fieldEmitters[emitter]._counter - 1
         IN [ec EXCEPT !.errorSubscrs[s]._subscription = FALSE,
                       !.fieldEmitters[emitter]._counter = counter,
                       !._emitters[ec.fieldEmitters[emitter]._field] =
                           IF counter = 0 THEN 0 ELSE @]

\* A call of ErrorCollector.subscribe(field, next).
collectorSubscribe(field) ==
    /\ Len(errorCollector.errorSubscrs) < MaxFieldSubs
    /\ errorCollector' = fieldSubscribe(errorCollector, field)
    /\ out' = <<>>
    /\ last' = [act |-> "collectorSubscribe", field |-> field]
    /\ UNCHANGED <<nextOp, opTarget, wrapped, nextSub, subOp, tr, nexted, ostop,
                   _operation, _response, _observer, _subscr, stopped,
                   serviceStopped, superseded, events, got, rikeStatus>>

\* A call of unsubscribe() on a subscription made before, whether it was
\* unsubscribed already or not.
collectorUnsubscribe(s) ==
    /\ s <= Len(errorCollector.errorSubscrs)
    /\ errorCollector' = subscrUnsubscribe(errorCollector, s)
    /\ out' = <<>>
    /\ last' = [act |-> "collectorUnsubscribe", s |-> s,
                before |-> errorCollector]
    /\ UNCHANGED <<nextOp, opTarget, wrapped, nextSub, subOp, tr, nexted, ostop,
                   _operation, _response, _observer, _subscr, stopped,
                   serviceStopped, superseded, events, got, rikeStatus>>

\* A stream delivers event to the collector.
onCollectorEvent(event) ==
    /\ errorCollector._initialized
    /\ errorCollector' = handleEvent(errorCollector, event).ec
    /\ out' = handleEvent(errorCollector, event).out
    /\ last' = [act |-> "handleEvent", event |-> event,
                errors |-> handleEvent(errorCollector, event).errors,
                before |-> errorCollector]
    /\ UNCHANGED <<nextOp, opTarget, wrapped, nextSub, subOp, tr, nexted, ostop,
                   _operation, _response, _observer, _subscr, stopped,
                   serviceStopped, superseded, events, got, rikeStatus>>

\* A stream fails with error, a cancel event.
onCollectorError(error) ==
    /\ errorCollector._initialized
    /\ errorCollector' = collectorHandleError(errorCollector, error).ec
    /\ out' = collectorHandleError(errorCollector, error).out
    /\ last' = [act |-> "handleError", event |-> error,
                thrown |-> collectorHandleError(errorCollector, error).thrown,
                before |-> errorCollector]
    /\ UNCHANGED <<nextOp, opTarget, wrapped, nextSub, subOp, tr, nexted, ostop,
                   _operation, _response, _observer, _subscr, stopped,
                   serviceStopped, superseded, events, got, rikeStatus>>

----------------------------------------------------------------------------
\* A RikeStatus and the events, labels and readers it is given.

\* The events of the targets' streams.
StatusEvents ==
    {StatusEvent(ke[1], t, NameOf(t), ke[2]) :
        t \in StatusTargets,
        ke \in {<<"started", NoVal>>, <<"succeeded", NoVal>>,
                <<"failed", "error1">>, <<"cancelled", NoVal>>,
                <<"cancelled", "cancelledBy">>}}
\* The label maps registered with withLabels.
RegisteredLabels ==
    {StatusLabels("Busy", NoLabel, NoLabel, "Done"),
     StatusLabels("fn:target", "", "fn:none", NoLabel)}
\* The default labels of the service's options: DEFAULT_STATUS_LABELS, or
\* labels of its own given as defaultStatusLabels.
DefaultStatusLabels ==
    {DEFAULT_STATUS_LABELS,
     LabelMap(StatusLabels(NoLabel, NoLabel, NoLabel, "Loaded"),
              StatusLabels("Working", NoLabel, NoLabel, NoLabel),
              StatusLabels(NoLabel, "Failure", NoLabel, NoLabel))}

InitStatus ==
    /\ InitOperations
    /\ rikeStatus \in {RikeStatus(d) : d \in DefaultStatusLabels}
    /\ errorCollector = ErrorCollector

\* The stream delivers event to the RikeStatus.
onEvent(event) ==
    /\ rikeStatus' = applyEvent(rikeStatus, event)
    /\ out' = <<>>
    /\ last' = [act |-> "applyEvent", event |-> event,
                before |-> rikeStatus._targetStatuses]
    /\ UNCHANGED <<nextOp, opTarget, wrapped, nextSub, subOp, tr, nexted, ostop,
                   _operation, _response, _observer, _subscr, stopped,
                   serviceStopped, superseded, events, got, errorCollector>>

\* A call of withLabels(id, labels).
callWithLabels(id, newLabels) ==
    /\ rikeStatus' = withLabels(rikeStatus, id, newLabels)
    /\ out' = <<>>
    /\ last' = [act |-> "withLabels", id |-> id]
    /\ UNCHANGED <<nextOp, opTarget, wrapped, nextSub, subOp, tr, nexted, ostop,
                   _operation, _response, _observer, _subscr, stopped,
                   serviceStopped, superseded, events, got, errorCollector>>

\* A read of the combined status (or of a flag or of the labels), which
\* caches it.
getCombined ==
    /\ rikeStatus' = [rikeStatus EXCEPT !._combined = combined(rikeStatus)]
    /\ out' = <<>>
    /\ last' = [act |-> "combined"]
    /\ UNCHANGED <<nextOp, opTarget, wrapped, nextSub, subOp, tr, nexted, ostop,
                   _operation, _response, _observer, _subscr, stopped,
                   serviceStopped, superseded, events, got, errorCollector>>

----------------------------------------------------------------------------
\* Reading the histories.

\* The live transport subscriptions of the operations of target t.
Live(t) == {s \in SubIds : tr[s] = "open" /\ opTarget[subOp[s]] = t}
\* Positions in x of the stream entries for an event of the given kind of o.
StreamIdx(x, kind, o) ==
    {i \in 1 .. Len(x) : x[i].k = "stream" /\ x[i].ev.kind = kind /\ x[i].ev.op = o}
\* ... that the stream delivered to its subscribers.
DeliveredIdx(x, kind, o) == {i \in StreamIdx(x, kind, o) : x[i].dlv}
\* Positions in x of the delivered terminal events of o.
TerminalIdx(x, o) ==
    {i \in 1 .. Len(x) : x[i].k = "stream" /\ x[i].ev.op = o
                           /\ complete(x[i].ev) /\ x[i].dlv}
\* Positions in x of the pipeline steps.
StepIdx(x) == {i \in 1 .. Len(x) : x[i].k = "step"}
TransportIdx(x, o) ==
    {i \in StepIdx(x) : x[i].name = "transport" /\ x[i].o = o}
\* Positions in x of the notifications of kind sig to the observer of s.
CallerIdx(x, s, sig) ==
    {i \in 1 .. Len(x) : x[i].k = "caller" /\ x[i].s = s /\ x[i].sig = sig}

\* C1: on every target at most one operation is in flight: besides the one
\* current operation the target has at most one live transport subscription,
\* whatever verb calls, subscriptions, transport signals and cancel() calls
\* have occurred.
C1_AtMostOneInFlight ==
    \A t \in Targets : Cardinality(Live(t)) <= 1

\* C2: a verb call on a target whose previous operation is still in flight
\* makes the stream deliver exactly one cancelled event for the previous
\* operation and then the started event of the new one, both before the new
\* operation's transport call.
C2_CancelledThenStarted ==
    (last.act = "verb" /\ last.prev # NoOp /\ wrapped[last.prev]) =>
        LET c == DeliveredIdx(out, "cancelled", last.prev)
            st == DeliveredIdx(out, "started", last.o)
        IN /\ Cardinality(c) = 1
           /\ Cardinality(st) = 1
           /\ \A i \in c, j \in st : i < j
           /\ \A j \in c \cup st, k \in TransportIdx(out, last.o) : j < k

\* C3: the observable of an operation superseded before its response arrived
\* terminates with a cancellation whose cancelledBy is the new operation's
\* started event, and never delivers a success value.
C3_SupersededIsCancelled ==
    \A s \in SubIds :
        (subOp[s] # NoOp /\ superseded[subOp[s]] # NoOp) =>
            /\ Len(got[s]) = 1
            /\ got[s][1].sig = "error"
            /\ got[s][1].by = superseded[subOp[s]]

\* C4: cancel() returns true exactly when the target had a current operation;
\* after it the target has no current operation and holds no transport
\* subscription; when it returns false nothing is emitted or changed.
C4_CancelClears ==
    last.act = "cancel" =>
        /\ last.ret = last.had
        /\ _operation[last.t] = NoOp
        /\ _subscr[last.t] = NoSub
        /\ (~last.ret => ~last.changed)

\* C5: while the response, the error or the completion of an operation's
\* transport is delivered to the caller's observer, currentOperation is that
\* operation; once the error or the completion has been delivered,
\* currentOperation is undefined and the transport subscription is released.
C5_CurrentWhileDelivering ==
    /\ last.act \in {"response", "error", "complete"} =>
           \A i \in 1 .. Len(out) : out[i].k = "caller" => out[i].cur = last.o
    /\ last.act \in {"error", "complete"} =>
           /\ _operation[last.t] = NoOp
           /\ _subscr[last.t] = NoSub
           /\ tr[last.s] # "open"

\* C6: no operation produces two terminal events (succeeded, failed or
\* cancelled).
C6_OneTerminalEvent ==
    \A o \in Ops : Cardinality(TerminalIdx(events[o], o)) <= 1

\* C7: every verb call emits the started event (complete = false, with the
\* operation and its target) on the target's stream before prepareRequest,
\* writeRequest and the transport call, and no event of the operation is
\* observed before it.
C7_StartedFirst ==
    /\ \A o \in Ops : o < nextOp =>
           /\ events[o] # <<>>
           /\ events[o][1].ch = "next"
           /\ events[o][1].t = opTarget[o]
           /\ events[o][1].ev.kind = "started"
           /\ events[o][1].ev.op = o
           /\ ~complete(events[o][1].ev)
           /\ StreamIdx(events[o], "started", o) = {1}
           /\ \A i \in 1 .. Len(events[o]) : events[o][i].dlv => events[o][1].dlv
    /\ last.act = "verb" =>
           /\ StreamIdx(out, "started", last.o) # {}
           /\ \A i \in StreamIdx(out, "started", last.o), j \in StepIdx(out) : i < j

\* C7 witness: a verb call with a body has run its whole pipeline.
C7_Witness ==
    /\ last.act = "verb"
    /\ ~last.threw
    /\ \E j \in StepIdx(out) : out[j].name = "writeRequest"
    /\ TransportIdx(out, last.o) # {}

\* C8: when the transport delivers a response that readResponse decodes, the
\* decoded value is forwarded to the caller's observer and a succeeded event
\* (complete, no error, result = the decoded value) of the operation is
\* emitted on the stream, after the operation's started event.
C8_SucceededWithResult ==
    (last.act = "response" /\ Decodable(last.r)) =>
        /\ \E i \in CallerIdx(out, last.s, "next") : out[i].val = readResponse(last.r)
        /\ \E j \in StreamIdx(out, "succeeded", last.o) :
               /\ out[j].ch = "next"
               /\ out[j].t = last.t
               /\ complete(out[j].ev)
               /\ out[j].ev.val = readResponse(last.r)
        /\ \E a, b \in 1 .. Len(events[last.o]) :
               /\ a < b
               /\ events[last.o][a].ev.kind = "started"
               /\ b = Len(events[last.o])
               /\ events[last.o][b].ev.kind = "succeeded"

\* C8 witness: a decodable response has been handled for the second operation.
C8_Witness ==
    /\ last.act = "response"
    /\ Decodable(last.r)
    /\ last.o = 2

\* C9: when the transport fails, the transport error is forwarded to the
\* caller's observer and a failed event carrying it is delivered to the
\* stream's subscribers as a regular event, after the operation's started
\* event.
C9_FailedDelivered ==
    last.act = "error" =>
        /\ \E i \in CallerIdx(out, last.s, "error") : out[i].val = last.e
        /\ \E j \in DeliveredIdx(out, "failed", last.o) :
               /\ out[j].ch = "next"
               /\ out[j].ev.val = last.e
        /\ DeliveredIdx(events[last.o], "started", last.o) # {}

\* C10: when readResponse throws, a failed event carrying the thrown error is
\* emitted on the stream and the error is forwarded to the caller's
\* observable as an error.
C10_DecodeErrorForwarded ==
    (last.act = "response" /\ ~Decodable(last.r)) =>
        /\ \E j \in StreamIdx(out, "failed", last.o) :
               out[j].ev.val = DecodeError(last.r)
        /\ \E i \in CallerIdx(out, last.s, "error") :
               out[i].val = DecodeError(last.r)

\* C11: a verb call whose effective URL is absent throws synchronously to
\* the caller, reports a failed event of the operation on the target's stream
\* after the operation's started event, and never invokes the transport.
C11_NoUrlThrows ==
    (last.act = "verb" /\ last.threw) =>
        /\ \E k \in StepIdx(out) : out[k].name = "throw" /\ out[k].o = last.o
        /\ \E i \in StreamIdx(out, "started", last.o) :
               \E j \in StreamIdx(out, "failed", last.o) :
                   /\ i < j
                   /\ out[j].t = last.t
                   /\ out[j].ev.val = "Request URL not specified"
                   /\ complete(out[j].ev)
        /\ TransportIdx(out, last.o) = {}
        /\ ~wrapped[last.o]
        /\ \A s \in SubIds : subOp[s] # last.o

\* C11 witness: a verb call without URL has thrown on a target whose stream
\* delivered both the started and the failed event.
C11_Witness ==
    /\ last.act = "verb"
    /\ last.threw
    /\ DeliveredIdx(out, "started", last.o) # {}
    /\ DeliveredIdx(out, "failed", last.o) # {}

\* C12: if a subscriber throws while it is notified of a cancellation, the
\* cancellation still unsubscribes the transport subscription the target
\* holds and clears the target's current operation.
C12_CancelCleansUpOnThrow ==
    last.act \in {"cancelThrows", "verbThrows"} =>
        /\ _operation[last.t] = NoOp
        /\ _subscr[last.t] = NoSub
        /\ _observer[last.t] = NoSub
        /\ last.subscr # NoSub => tr[last.subscr] = "closed"
        /\ \E i \in StepIdx(out) : out[i] = ThrowE(IF last.act = "verbThrows"
                                                    THEN last.prev ELSE last.o)

\* C12 witness: a cancellation whose notification threw has closed a
\* transport subscription that was open.
C12_Witness ==
    /\ last.act \in {"cancelThrows", "verbThrows"}
    /\ last.subscr # NoSub
    /\ tr[last.subscr] = "closed"
    /\ ~nexted[last.subscr]

\* C13: once an operation has been cancelled, no later response, error or
\* completion of its transport produces an event on the target's stream or
\* reaches the caller's observer.
C13_NoSignalAfterCancel ==
    (/\ last.act \in {"response", "error", "complete"}
     /\ StreamIdx(events[last.o], "cancelled", last.o) # {}) =>
        out = <<>>

\* C14: the subscribers of the target's stream are isolated: when a
\* subscriber throws while a response is handled, the operation's succeeded
\* event is still delivered to the other subscribers as a regular event, and
\* the stream keeps delivering later events.
C14_SubscribersIsolated ==
    (last.act = "responseThrows" /\ ~last.wasStopped) =>
        /\ \E j \in DeliveredIdx(out, "succeeded", last.o) : out[j].ch = "next"
        /\ StreamIdx(out, "failed", last.o) = {}
        /\ ~stopped[last.t]

\* Reading the calls of a verb's pipeline.
CallIdx(x, name) == {i \in 1 .. Len(x) : x[i].k = "call" /\ x[i].name = name}
HttpIdx(x) == {i \in 1 .. Len(x) : x[i].k = "http"}
\* The first of two values that is present.
Either(a, b) == IF a # Undefined THEN a ELSE b
\* The URL given to a verb call: by argument, by the per-call options or by
\* withUrl, in this order.
GivenUrl == Either(last.url, Either(last.options.url, last.op.options.url))

\* C15: the effective request options of a verb call are the operation's
\* accumulated options overridden by the per-call options, overridden by the
\* URL argument and the verb's own method: load and send use the method of
\* the per-call options or else of withMethod, load without any uses GET,
\* and get/post/put/delete/patch/head use their own method.
C15_EffectiveOptions ==
    last.act = "request" =>
        LET eff == out[1].arg
            own == CASE last.v = "get" -> <<"GET">>
                     [] last.v = "post" -> <<"POST">>
                     [] last.v = "put" -> <<"PUT">>
                     [] last.v = "delete" -> <<"DELETE">>
                     [] last.v = "patch" -> <<"PATCH">>
                     [] last.v = "head" -> <<"HEAD">>
                     [] OTHER -> Either(last.options.method,
                                        last.op.options.method)
        IN /\ out[1].name = "prepareRequest"
           /\ eff.search = Either(last.options.search, last.op.options.search)
           /\ eff.method = own
           /\ eff.url = IF GivenUrl = Undefined THEN last.op.baseUrl
                        ELSE relativeUrl(last.op.baseUrl, GivenUrl)
           /\ \A j \in HttpIdx(out) :
                  /\ out[j].options.method = own
                  /\ out[j].method = Either(own, <<"GET">>)

\* C15 witness: send() with a URL argument on an operation with withUrl and
\* withMethod, with per-call options that name a URL and a method too.
C15_Witness ==
    /\ last.act = "request"
    /\ last.v = "send"
    /\ last.url = <<"a">>
    /\ last.options.url # Undefined
    /\ last.options.method = <<"PUT">>
    /\ last.op.options.url # Undefined
    /\ last.op.options.method = <<"OPTIONS">>
    /\ \E j \in HttpIdx(out) : out[j].method = <<"PUT">>

\* C16: with the default protocol the URL handed to the transport is
\* relativeUrl(globalBaseUrl, relativeUrl(targetBaseUrl, url)) when a URL is
\* given and relativeUrl(globalBaseUrl, targetBaseUrl) when none is; with
\* global base "/a" and target base "a", url "a" gives "/a/a/a" and no url
\* gives "/a/a".
C16_TransportUrl ==
    (last.act = "request" /\ last.op.protocol = HTTP_PROTOCOL) =>
        \A j \in HttpIdx(out) :
            LET g == last.globalBaseUrl
                b == last.op.baseUrl
                expected == IF GivenUrl # Undefined
                            THEN relativeUrl(g, relativeUrl(b, GivenUrl))
                            ELSE relativeUrl(g, b)
            IN /\ out[j].url = expected
               /\ out[j].options.url = expected
               /\ (g = <<"/", "a">> /\ b = <<"a">> /\ GivenUrl = <<"a">>) =>
                      out[j].url = <<"/", "a", "/", "a", "/", "a">>
               /\ (g = <<"/", "a">> /\ b = <<"a">> /\ GivenUrl = Undefined) =>
                      out[j].url = <<"/", "a", "/", "a">>

\* C16 witness: global base "/a", target base "a", URL argument "a".
C16_Witness ==
    /\ last.act = "request"
    /\ last.op.protocol = HTTP_PROTOCOL
    /\ last.globalBaseUrl = <<"/", "a">>
    /\ last.op.baseUrl = <<"a">>
    /\ last.url = <<"a">>
    /\ \E j \in HttpIdx(out) : out[j].url = <<"/", "a", "/", "a", "/", "a">>

\* C17: relativeUrl(base, url) returns url unchanged when base is undefined
\* or empty, when url starts with "/", or when url begins with an optional
\* scheme (word characters and a colon) followed by "//"; in every other
\* case, a "://" further on included, it returns base + "/" + url.
C17_RelativeUrl ==
    last.act = "relativeUrl" =>
        LET base == last.baseUrl
            url == last.url
            n == Len(url)
            \* url begins with k characters of scheme and then "//"
            fullAt(k) == /\ k + 2 <= n
                         /\ SubSeq(url, k + 1, k + 2) = <<"/", "/">>
                         /\ k > 0 => /\ url[k] = ":"
                                     /\ \A j \in 1 .. k - 1 : url[j] = "a"
            unchanged == \/ base \in {Undefined, <<>>}
                         \/ (n > 0 /\ Head(url) = "/")
                         \/ \E k \in 0 .. n : fullAt(k)
        IN last.ret = IF unchanged THEN url ELSE base \o <<"/">> \o url

\* C17 witness: a URL with "://" after its first character is resolved
\* against the base URL.
C17_Witness ==
    /\ last.act = "relativeUrl"
    /\ last.baseUrl = <<"/", "a">>
    /\ last.url = <<"#", ":", "/", "/">>
    /\ last.ret = <<"/", "a", "/", "#", ":", "/", "/">>

\* C18: writeRequest is called exactly once per call of post, put, patch
\* and send and never for get, delete, head and load; it receives the options
\* prepareRequest returned, and its result is what is handed to the transport
\* (with the URL resolved against the global base URL).
C18_WriteRequestOnce ==
    last.act = "request" =>
        LET w == CallIdx(out, "writeRequest")
        IN /\ CallIdx(out, "prepareRequest") = {1}
           /\ Cardinality(w) =
                  IF last.v \in {"post", "put", "patch", "send"} THEN 1 ELSE 0
           /\ \A i \in w :
                  /\ i = 2
                  /\ out[i].request = last.request
                  /\ out[i].arg = out[1].ret
                  /\ \A j \in HttpIdx(out) :
                         /\ i < j
                         /\ out[j].options.method = out[i].ret.method
                         /\ out[j].options.search = out[i].ret.search
                         /\ out[j].options.headers = out[i].ret.headers
                         /\ out[j].options.body = out[i].ret.body
                         /\ out[j].options.url =
                                relativeUrl(last.globalBaseUrl, out[i].ret.url)
                         /\ last.v # "send" => out[j].body = out[i].ret.body

\* C18 witness: a post over a protocol whose prepareRequest changes the
\* options has reached the transport.
C18_Witness ==
    /\ last.act = "request"
    /\ last.v = "post"
    /\ last.op.protocol = TestProtocol
    /\ out[1].ret # out[1].arg
    /\ HttpIdx(out) = {3}

\* C19: for an operation created with protocol P on a target with protocol T,
\* operation.protocol.prepareRequest(o) = P.prepareRequest(T.prepareRequest(o));
\* when T is HTTP_PROTOCOL the operation's protocol is P itself, and without
\* P it is T itself.
C19_TargetPreparesFirst ==
    last.act = "operation" =>
        /\ last.protocol = NoProtocol => last.opProtocol = last.targetProtocol
        /\ last.protocol # NoProtocol =>
               /\ last.ret = prepareRequest(last.protocol,
                                 prepareRequest(last.targetProtocol, last.options))
               /\ last.targetProtocol = HTTP_PROTOCOL =>
                      last.opProtocol = last.protocol

\* C19 witness: target and operation protocol both set the search field, and
\* the operation's value is the one that stays.
C19_Witness ==
    /\ last.act = "operation"
    /\ last.protocol = TestProtocol
    /\ last.targetProtocol.type = "prepare"
    /\ prepareRequest(last.targetProtocol, last.options).search = <<"updated">>
    /\ last.ret.search = <<"prepared">>

\* C20: with after falsy or omitted prepareRequestWith(fn, after) gives
\* base.prepareRequest(fn(o)) and updateRequestWith(fn, after) gives
\* base.writeRequest(r, fn(r, o)); with after true they give
\* fn(base.prepareRequest(o)) and fn(r, base.writeRequest(r, o)).
C20_AfterFixesOrder ==
    /\ last.act = "prepareRequestWith" =>
           LET fn(o) == merge(o, last.fn.args)
           IN last.ret = IF last.after = "true"
                         THEN fn(prepareRequest(last.base, last.options))
                         ELSE prepareRequest(last.base, fn(last.options))
    /\ last.act = "updateRequestWith" =>
           LET fn(r, o) == merge(o, [last.fn.args EXCEPT
                                        !.body = <<last.fn.tag>> \o r])
           IN last.ret = IF last.after = "true"
                         THEN fn(last.request,
                                 writeRequest(last.base, last.request, last.options))
                         ELSE writeRequest(last.base, last.request,
                                           fn(last.request, last.options))

\* C20 witness: the function runs after the preparation of TestProtocol, and
\* the field both set has the function's value.
C20_Witness ==
    /\ last.act = "prepareRequestWith"
    /\ last.after = "true"
    /\ last.base = TestProtocol
    /\ last.fn.args.search = <<"updated">>
    /\ last.ret.search = <<"updated">>
    /\ last.ret.url = <<"/", "a">>

\* C21: a composition operator returns a new protocol in which every
\* capability other than the one it targets behaves as the base's, and
\* writeRequestWith, readResponseWith and handleErrorWith replace the
\* targeted capability by the function given.
C21_CompositionFrames ==
    last.act = "compose" =>
        LET b == last.base
            n == last.ret
            samePrepare == \A o \in PreparedOptions :
                               prepareRequest(n, o) = prepareRequest(b, o)
            sameWrite == \A r \in Requests, o \in PreparedOptions :
                             writeRequest(n, r, o) = writeRequest(b, r, o)
            sameRead == \A r \in HttpResponses :
                            protocolReadResponse(n, r) = protocolReadResponse(b, r)
            sameHandle == handleError(n) = handleError(b)
        IN /\ last.opr = "prepareRequestWith" =>
                  sameWrite /\ sameRead /\ sameHandle
           /\ last.opr = "updateRequestWith" =>
                  samePrepare /\ sameRead /\ sameHandle
           /\ last.opr = "writeRequestWith" =>
                  /\ samePrepare /\ sameRead /\ sameHandle
                  /\ \A r \in Requests, o \in PreparedOptions :
                         writeRequest(n, r, o) = callWrite(last.fn, r, o)
           /\ last.opr = "readResponseWith" =>
                  /\ samePrepare /\ sameWrite /\ sameHandle
                  /\ \A r \in HttpResponses :
                         protocolReadResponse(n, r) = callReader(last.fn, r)
           /\ last.opr = "handleErrorWith" =>
                  /\ samePrepare /\ sameWrite /\ sameRead
                  /\ handleError(n) = <<last.fn>>

\* C21 witness: writeRequestWith on the JSON protocol: the new protocol
\* writes with the function alone, without the JSON content type.
C21_Witness ==
    /\ last.act = "compose"
    /\ last.opr = "writeRequestWith"
    /\ last.base = JSON_PROTOCOL
    /\ \E r \in Requests :
           /\ writeRequest(last.ret, r, NoOptions).headers = Undefined
           /\ writeRequest(last.base, r, NoOptions).headers # Undefined

\* C22: when an operation fails at the transport, the error handler of the
\* operation's protocol is applied to the error, and its result is what the
\* caller's observer and the failed event carry.
C22_HandlerApplied ==
    last.act = "error" =>
        LET handled == callHandler(handleError(operationProtocol(last.o))[1],
                                   last.e)
        IN /\ \A i \in CallerIdx(out, last.s, "error") : out[i].val = handled
           /\ \A i \in StreamIdx(out, "failed", last.o) : out[i].ev.val = handled

\* C23: toErrorResponse is idempotent: toErrorResponse(toErrorResponse(x))
\* equals toErrorResponse(x), and an ErrorResponse is returned as it is.
C23_Idempotent ==
    last.act = "toErrorResponse" =>
        /\ last.again = last.ret
        /\ last.error.t = "ErrorResponse" => last.ret = last.error

\* C23 witness: an array of errors was converted, and the conversion of the
\* result gave the same response.
C23_Witness ==
    /\ last.act = "toErrorResponse"
    /\ last.error = Arr(<<Str(<<"abc">>)>>)
    /\ last.ret.t = "ErrorResponse"
    /\ last.ret.errors = <<FieldEntry("*", <<FieldError(Undefined, <<"abc">>)>>)>>
    /\ last.again = last.ret

\* C24: every ErrorResponse toErrorResponse produces has at least one error
\* entry, and no field of its error map has an empty list.
C24_NonEmptyErrors ==
    (last.act = "toErrorResponse" /\ last.ret # Thrown) =>
        /\ last.ret.errors # <<>>
        /\ last.ret.kind = "map" =>
               \A i \in 1 .. Len(last.ret.errors) :
                   last.ret.errors[i].errors # <<>>

\* C25: toErrorResponse never throws, and a value of an unrecognized shape
\* yields a response with the single entry "*".
C25_NeverThrows ==
    last.act = "toErrorResponse" => last.ret # Thrown

\* C26: on every event the RikeStatus updates only the pair of the event's
\* target: a non-terminal event replaces it by {start: event}; a terminal
\* event sets end on the existing pair, or creates {start: event, end: event}
\* when there is none; the pairs of the other targets are unchanged.
C26_PairOfTargetOnly ==
    last.act = "applyEvent" =>
        LET ev == last.event
            was == last.before[ev.target]
            now == rikeStatus._targetStatuses[ev.target]
        IN /\ \A t \in StatusTargets \ {ev.target} :
                  rikeStatus._targetStatuses[t] = last.before[t]
           /\ ev.kind = "started" => now = [start |-> ev, end |-> NoEvent]
           /\ (ev.kind # "started" /\ was # NoStatus) =>
                  now = [start |-> was.start, end |-> ev]
           /\ (ev.kind # "started" /\ was = NoStatus) =>
                  now = [start |-> ev, end |-> ev]

\* C26 witness: a started event has replaced a finished pair of target 1
\* while target 2 has a pair of its own.
C26_Witness ==
    /\ last.act = "applyEvent"
    /\ last.event.kind = "started"
    /\ last.event.target = 1
    /\ last.before[1].end # NoEvent
    /\ last.before[1].start.kind = "started"
    /\ rikeStatus._targetStatuses[1].end = NoEvent
    /\ rikeStatus._targetStatuses[2] # NoStatus

\* The target's pair has a processing label in one of the four label maps.
HasProcessingLabel(rs, status) ==
    \E m \in {labelsAt(rs._labels, status.start.name), labelsAt(rs._labels, "*"),
              labelsAt(rs.defaultStatusLabels, status.start.name),
              labelsAt(rs.defaultStatusLabels, "*")} :
        evalLabel(status, m.processing) \notin {NoLabel, ""}

C28_CancelledStatus ==
    (/\ last.act = "cancel"
     /\ \E i \in 1 .. Len(out) : out[i].k = "stream" /\ out[i].ev.kind = "cancelled") =>
        /\ rikeStatus._targetStatuses[last.t].end.kind = "cancelled"
        /\ cancelled(rikeStatus)
        /\ ~processing(rikeStatus)

\* The state a pair is in.
StateOf(status) ==
    IF status.end = NoEvent THEN "processing"
    ELSE IF status.end.kind = "cancelled" THEN "cancelled"
    ELSE IF status.end.error # NoVal THEN "failed"
    ELSE "succeed"
\* The label a label map defines for the state of a pair, if any.
DefinedLabel(m, status) ==
    LET l == CASE StateOf(status) = "processing" -> m.processing
               [] StateOf(status) = "cancelled" -> m.cancelled
               [] StateOf(status) = "failed" -> m.failed
               [] StateOf(status) = "succeed" -> m.succeed
        v == IF l \in LabelFns THEN callLabel(l, status.start.target) ELSE l
    IN IF v \in {NoLabel, ""} THEN NoLabel ELSE v

\* C29: the label of a tracked target is the first label defined for the
\* state of its pair in the registered map of the operation's name, the
\* registered "*" map, the default map of the name, the default "*" map, in
\* this order; a function label is applied to the target; when none is
\* defined the target has no label.
C29_LabelLookupOrder ==
    \A t \in StatusTargets :
        LET status == rikeStatus._targetStatuses[t]
            maps == <<labelsAt(rikeStatus._labels, status.start.name),
                      labelsAt(rikeStatus._labels, "*"),
                      labelsAt(rikeStatus.defaultStatusLabels, status.start.name),
                      labelsAt(rikeStatus.defaultStatusLabels, "*")>>
            found == {i \in 1 .. 4 : DefinedLabel(maps[i], status) # NoLabel}
            first == CHOOSE i \in found : \A j \in found : i <= j
        IN status # NoStatus =>
               IF found = {} THEN labelFor(rikeStatus, status) = NoStatusLabel
               ELSE /\ labelFor(rikeStatus, status).label =
                           DefinedLabel(maps[first], status)
                    /\ StateOf(status) = "processing" <=>
                           labelFor(rikeStatus, status).processing

\* C29 witness: the registered map of the name has no label for the state,
\* the registered "*" map has a function label, and it is the target's label.
C29_Witness ==
    /\ rikeStatus._targetStatuses[2] # NoStatus
    /\ rikeStatus._targetStatuses[2].end = NoEvent
    /\ rikeStatus._labels.star.processing = "fn:target"
    /\ rikeStatus._labels.custom = NoLabels
    /\ rikeStatus.defaultStatusLabels.custom.processing = "Working"
    /\ labelFor(rikeStatus, rikeStatus._targetStatuses[2]).label = "target2"

\* The entries a target holds for a field.
itemsOf(te, field) ==
    IF te.defined /\ errorsAt(te._errors, field).t = "array"
    THEN errorsAt(te._errors, field).items ELSE <<>>
\* The entries all tracked targets hold for a field, in the order of the
\* targets' ids.
RECURSIVE accumulated(_, _, _)
accumulated(ec, t, field) ==
    IF t \notin StatusTargets THEN <<>>
    ELSE itemsOf(ec._targetErrors[t], field) \o accumulated(ec, t + 1, field)
\* The entries of a field in a result emitted.
resultOf(errors, field) ==
    IF HasField(errors, field)
    THEN errors[CHOOSE i \in 1 .. Len(errors) : errors[i].field = field].errors
    ELSE <<>>

\* C30: after the collector has handled an event with an error, for every
\* field of the field errors obtained from the error the target's list of the
\* field is its earlier list followed by the new entries, and when the field
\* has subscribers they were notified with a result that holds the field's
\* entries of all tracked targets.
C30_ErrorsAccumulated ==
    (last.act = "handleEvent" /\ ~falsy(last.event.error)) =>
        \A i \in 1 .. Len(last.errors) :
            LET field == last.errors[i].field
                id == last.event.target
            IN /\ itemsOf(errorCollector._targetErrors[id], field)
                      = itemsOf(last.before._targetErrors[id], field)
                            \o last.errors[i].errors
               /\ errorCollector._emitters[field] > 0 =>
                      \E j \in 1 .. Len(out) :
                          /\ out[j].k = "errors"
                          /\ out[j].field = field
                          /\ resultOf(out[j].errors, field)
                                 = accumulated(errorCollector, 1, field)

\* C31: when an event without error arrives for a target that has recorded
\* errors, the target's whole error map is removed and, for every field the
\* map had, the field's subscribers are notified with what the remaining
\* targets hold for it: with nothing when no other target is tracked.
C31_ClearedAndNotified ==
    (/\ last.act = "handleEvent"
     /\ falsy(last.event.error)
     /\ last.before._targetErrors[last.event.target].defined) =>
        LET id == last.event.target
            had == last.before._targetErrors[id]._errors
        IN /\ errorCollector._targetErrors[id] = NoTargetErrors
           /\ \A i \in 1 .. Len(had) :
                  errorCollector._emitters[had[i].field] > 0 =>
                      \E j \in 1 .. Len(out) :
                          /\ out[j].k = "errors"
                          /\ out[j].field = had[i].field
                          /\ resultOf(out[j].errors, had[i].field)
                                 = accumulated(errorCollector, 1, had[i].field)
                          /\ (\A t \in StatusTargets :
                                  ~errorCollector._targetErrors[t].defined)
                                 => out[j].errors = <<>>

\* C31 witness: target 1 had errors recorded for the field "f", an event
\* without error arrived for it and the subscriber of "f" got an empty
\* result.
C31_Witness ==
    /\ last.act = "handleEvent"
    /\ last.event = CollectorEvent(1, Undef)
    /\ HasField(last.before._targetErrors[1]._errors, "f")
    /\ errorCollector._emitters["f"] > 0
    /\ errorCollector._targetErrors[1] = NoTargetErrors
    /\ \E j \in 1 .. Len(out) : out[j] = [k |-> "errors", field |-> "f",
                                          errors |-> <<>>]

\* C32: when "*" has a subscriber and an error event changes the errors of a
\* field without a subscriber of its own, the subscriber of "*" is notified,
\* and the result carries, for every field without a subscriber of its own,
\* the entries all tracked targets hold for it.
C32_WildcardNotified ==
    (/\ last.act = "handleEvent"
     /\ ~falsy(last.event.error)
     /\ errorCollector._emitters["*"] > 0) =>
        \A i \in 1 .. Len(last.errors) :
            (\/ last.errors[i].field = "*"
             \/ errorCollector._emitters[last.errors[i].field] = 0) =>
                \E j \in 1 .. Len(out) :
                    /\ out[j].k = "errors"
                    /\ out[j].field = "*"
                    /\ \A field \in Fields :
                           (field # "*" /\ errorCollector._emitters[field] = 0)
                               => resultOf(out[j].errors, field)
                                      = accumulated(errorCollector, 1, field)

\* The field a subscription was made on, and whether it is live.
fieldOf(ec, s) == ec.fieldEmitters[ec.errorSubscrs[s]._emitter]._field
live(ec, s) == ec.errorSubscrs[s]._subscription

\* C33: unsubscribe() on a subscription that was unsubscribed before changes
\* nothing, and in every state a field has an emitter registered exactly when
\* a subscription made on the field is live, the emitter being the one the
\* live subscriptions were made on.
C33_IdempotentUnsubscribe ==
    /\ (/\ last.act = "collectorUnsubscribe"
        /\ ~live(last.before, last.s)) => errorCollector = last.before
    /\ \A field \in Fields :
           errorCollector._emitters[field] # 0
               <=> \E s \in 1 .. Len(errorCollector.errorSubscrs) :
                       live(errorCollector, s) /\ fieldOf(errorCollector, s) = field
    /\ \A s \in 1 .. Len(errorCollector.errorSubscrs) :
           live(errorCollector, s) =>
               errorCollector._emitters[fieldOf(errorCollector, s)]
                   = errorCollector.errorSubscrs[s]._emitter

\* C33 witness: two subscriptions on "f", the first unsubscribed twice, the
\* second still live and the emitter of "f" still registered.
C33_Witness ==
    /\ last.act = "collectorUnsubscribe"
    /\ last.s = 1
    /\ ~live(last.before, 1)
    /\ Len(errorCollector.errorSubscrs) >= 2
    /\ fieldOf(errorCollector, 1) = "f"
    /\ fieldOf(errorCollector, 2) = "f"
    /\ live(errorCollector, 2)
    /\ errorCollector._emitters["f"] # 0

\* C34: the stream of a target stays usable: whatever happened on the target
\* before (a cancellation, a failure, an exception), the started event of
\* every verb call and every terminal event sent afterwards is delivered to
\* the stream's subscribers.
C34_StreamStaysUsable ==
    /\ last.act = "verb" => DeliveredIdx(out, "started", last.o) # {}
    /\ \A i \in 1 .. Len(out) :
           (out[i].k = "stream" /\ complete(out[i].ev)) => out[i].dlv

\* C35: every event a target's stream delivers is delivered on the stream of
\* the Rike service too, at once and so in the same order, whatever happened
\* on the other targets of the service before.
C35_ServiceStreamFollows ==
    \A i \in 1 .. Len(out) :
        (out[i].k = "stream" /\ out[i].dlv) =>
            /\ i < Len(out)
            /\ out[i + 1].k = "service"
            /\ out[i + 1].t = out[i].t
            /\ out[i + 1].ev = out[i].ev
            /\ out[i + 1].dlv

\* C36: after a verb call has thrown, the target has no current operation,
\* and a cancel() that returns true never finds the operation of a verb call
\* that threw as the current one.
C36_IdleAfterThrow ==
    /\ (last.act = "verb" /\ last.threw) => _operation[last.t] = NoOp
    /\ (last.act = "cancel" /\ last.ret) => wrapped[last.cur]

\* Operation o is the current operation of its target; it is in flight with
\* a subscriber when a transport subscription made for it is open.
Current(o) == opTarget[o] # 0 /\ _operation[opTarget[o]] = o
InFlight(o) == Current(o) /\ \E s \in SubIds : subOp[s] = o /\ tr[s] = "open"

\* C37: an operation in flight with a subscriber, whose transport eventually
\* responds, fails or completes, is eventually not the current operation of
\* its target any more.
C37_LeavesInFlight ==
    \A o \in Ops : InFlight(o) ~> ~Current(o)

\* The combined status computed from the pairs and the label maps as they
\* are.
Recomputed(rs) == combineFrom(rs, 1, NoCombined)

\* C38: in every state the labels and the four flags read from the status
\* are the ones computed afresh from its pairs and label maps, a cached
\* combination is never stale, and when a flag is true there is a label.
C38_NoStaleCombination ==
    LET fresh == Recomputed(rikeStatus)
    IN /\ rikeStatus._combined.defined => rikeStatus._combined = fresh
       /\ labels(rikeStatus) = (IF fresh.defined THEN fresh.labels ELSE <<>>)
       /\ processing(rikeStatus) = (fresh.defined /\ fresh.processing)
       /\ failed(rikeStatus) = (fresh.defined /\ fresh.failed)
       /\ cancelled(rikeStatus) = (fresh.defined /\ fresh.cancelled)
       /\ succeed(rikeStatus) = (fresh.defined /\ fresh.succeed)
       /\ (\/ processing(rikeStatus) \/ failed(rikeStatus)
           \/ cancelled(rikeStatus) \/ succeed(rikeStatus))
              => labels(rikeStatus) # <<>>

\* C38 witness: labels were registered for "load", both targets have a pair,
\* and the combination was cached again after that: two labels, one target
\* failed and the other in process.
C38_Witness ==
    /\ rikeStatus._combined.defined
    /\ rikeStatus._labels.load # NoLabels
    /\ Len(rikeStatus._combined.labels) = 2
    /\ failed(rikeStatus)
    /\ processing(rikeStatus)
    /\ last.act = "combined"

----------------------------------------------------------------------------
\* C40: delete(object) on a CRUD resource whose target has a base URL sends
\* its DELETE request to the URL of the object, objectUrl(targetUrl,
\* objectId(object)), resolved against the global base URL: the URL update
\* of the deletion protocol is applied to the request given to the transport.
C40_DeleteToObjectUrl ==
    (last.act = "crudDelete" /\ last.baseUrl # Undefined)
        => \E i \in 1 .. Len(out) :
               /\ out[i].k = "http"
               /\ out[i].fn = "delete"
               /\ out[i].url = relativeUrl(last.globalBaseUrl,
                                           objectUrl(last.baseUrl, last.id))

Next ==
    \/ \E t \in Targets, v \in Verbs, hasUrl \in BOOLEAN : verb(t, v, hasUrl)
    \/ \E o \in Ops : subscribe(o)
    \/ \E s \in SubIds, r \in Responses : onResponse(s, r)
    \/ \E s \in SubIds, e \in TransportErrors : onError(s, e)
    \/ \E s \in SubIds : onComplete(s)
    \/ \E t \in Targets : cancel(t)

Spec == Init /\ [][Next]_vars

\* The transport of every subscription eventually gives a signal, if it is
\* not unsubscribed before: a response, an error or its completion.
TransportSignal(s) ==
    \/ \E r \in Responses : onResponse(s, r)
    \/ \E e \in TransportErrors : onError(s, e)
    \/ onComplete(s)
SpecSignalled ==
    Spec /\ \A s \in SubIds : WF_vars(~nexted[s] /\ TransportSignal(s))
\* The transport of every subscription eventually fails or completes, if it
\* is not unsubscribed before.
TransportEnd(s) ==
    \/ \E e \in TransportErrors : onError(s, e)
    \/ onComplete(s)
SpecEnded ==
    Spec /\ \A s \in SubIds : WF_vars(TransportEnd(s))

\* The targets with subscribers that may throw.
NextThrow ==
    \/ \E t \in Targets, v \in Verbs, hasUrl \in BOOLEAN : verb(t, v, hasUrl)
    \/ \E o \in Ops : nextSub <= MaxThrowSubs /\ subscribe(o)
    \/ \E s \in SubIds, r \in Responses : onResponse(s, r)
    \/ \E s \in SubIds, e \in TransportErrors : onError(s, e)
    \/ \E s \in SubIds : onComplete(s)
    \/ \E t \in Targets : cancel(t)
    \/ \E t \in Targets, who \in Throwers : cancelThrows(t, who)
    \/ \E t \in Targets, v \in Verbs, who \in Throwers : verbThrows(t, v, who)
    \/ \E s \in SubIds, r \in Responses, who \in Throwers :
           onResponseThrows(s, r, who)
    \/ \E s \in SubIds, e \in TransportErrors, who \in Throwers :
           onErrorThrows(s, e, who)

SpecThrow == Init /\ [][NextThrow]_vars

\* The request pipeline applied to its inputs.  Its functions are pure: each
\* behaviour applies one of them once, to inputs of its choice.
NextRequest ==
    \/ pristine /\ \E baseUrl \in BaseUrls, url \in Urls : callRelativeUrl(baseUrl, url)
    \/ pristine /\ \E o \in OperationOptions, p \in {HTTP_PROTOCOL, TestProtocol},
          b \in TargetBaseUrls, g \in GlobalBaseUrls, v \in Verbs,
          r \in Requests, url \in ArgUrls, options \in CallOptions :
           callVerb(Operation(o, p, b), g, v, r, url, options)
    \/ pristine /\ \E tp \in TargetProtocols, p \in OperationProtocols,
          options \in PreparedOptions : callOperation(tp, p, options)
    \/ pristine /\ \E base \in BaseProtocols, fn \in PrepareFns, after \in Afters,
          options \in PreparedOptions :
           callPrepareRequestWith(base, fn, after, options)
    \/ pristine /\ \E base \in BaseProtocols, fn \in UpdateFns, after \in Afters,
          r \in Requests, options \in PreparedOptions :
           callUpdateRequestWith(base, fn, after, r, options)
    \/ pristine /\ \E opr \in Compositions, base \in ComposeBases, after \in Afters :
          \E fn \in ComposeFns(opr) : callCompose(opr, base, fn, after)
    \/ pristine /\ \E o \in OperationOptions, b \in TargetBaseUrls,
          v \in {"load", "get", "post"}, url \in ArgUrls, options \in CallOptions,
          url2 \in ArgUrls :
           callVerbAgain(Operation(o, HTTP_PROTOCOL, b), v, url, options, url2)
    \/ pristine /\ \E b \in TargetBaseUrls, g \in GlobalBaseUrls, id \in ObjectIds :
           callDelete(b, g, id)

SpecRequest == Init /\ [][NextRequest]_vars

\* The conversion of errors applied to its inputs.
NextErrors ==
    pristine /\ \E error \in ErrorInputs : callToErrorResponse(error)

SpecErrors == Init /\ [][NextErrors]_vars

\* A RikeStatus hearing of the events of two targets.
NextStatus ==
    \/ \E event \in StatusEvents : onEvent(event)
    \/ \E id \in {"load", "*"}, newLabels \in RegisteredLabels :
           callWithLabels(id, newLabels)
    \/ getCombined

SpecStatus == InitStatus /\ [][NextStatus]_vars

\* The error collector, its subscribers and the events of two targets.
NextCollector ==
    \/ \E field \in Fields : collectorSubscribe(field)
    \/ \E s \in 1 .. MaxFieldSubs : collectorUnsubscribe(s)
    \/ \E event \in CollectorEvents : onCollectorEvent(event)
    \/ \E error \in CollectorCancels : onCollectorError(error)

SpecCollector == Init /\ [][NextCollector]_vars
====
